---- MODULE Spec2Model ----
(***************************************************************************)
(* Fuel backend: the macro-nutrient calculation engine                     *)
(* (app/services/macro_calculator.py) and the writers of the stored macro  *)
(* targets (signup, PUT /users/me, startup demo seeding).                  *)
(*                                                                         *)
(* The engine computes in IEEE-754 binary64 ("float" in Python) and rounds *)
(* with Python's round(), which rounds half to even.  Both are modelled    *)
(* bit-exactly: a float is a sign, an odd integer mantissa of at most 53   *)
(* bits and a binary exponent, and every operation rounds its exact result *)
(* to the nearest such value, ties to even.  Mantissas do not fit TLC's    *)
(* 32-bit integers, so naturals are kept as little-endian sequences of     *)
(* 15-bit limbs.                                                           *)
(***************************************************************************)
EXTENDS Integers, Sequences, FiniteSets, TLC

(***************************************************************************)
(* Arbitrary-size naturals: <<l1, l2, ...>> is l1 + l2*Base + ..., with no  *)
(* zero limb at the top; <<>> is 0.                                        *)
(***************************************************************************)
Base == 2 ^ 15

\* binary64 keeps 53 significant bits
MantissaBits == 53

RECURSIVE IntBitLen(_)
IntBitLen(n) == IF n = 0 THEN 0 ELSE 1 + IntBitLen(n \div 2)

LimbBits == IntBitLen(Base - 1)

RECURSIVE BNorm(_)
BNorm(a) ==
    IF a = <<>> THEN <<>>
    ELSE IF a[Len(a)] = 0 THEN BNorm(SubSeq(a, 1, Len(a) - 1))
    ELSE a

RECURSIVE BFromInt(_)
BFromInt(n) ==
    IF n = 0 THEN <<>> ELSE <<n % Base>> \o BFromInt(n \div Base)

RECURSIVE BToInt(_)
BToInt(a) ==
    IF a = <<>> THEN 0 ELSE Head(a) + Base * BToInt(Tail(a))

RECURSIVE BAddC(_, _, _)
BAddC(a, b, c) ==
    IF a = <<>> /\ b = <<>> THEN (IF c = 0 THEN <<>> ELSE <<c>>)
    ELSE LET x == IF a = <<>> THEN 0 ELSE Head(a)
             y == IF b = <<>> THEN 0 ELSE Head(b)
             t == x + y + c
         IN  <<t % Base>> \o BAddC(IF a = <<>> THEN <<>> ELSE Tail(a),
                                   IF b = <<>> THEN <<>> ELSE Tail(b),
                                   t \div Base)

BAdd(a, b) == BAddC(a, b, 0)

\* a - b for a >= b, limb by limb with a borrow
RECURSIVE BSubC(_, _, _)
BSubC(a, b, c) ==
    IF a = <<>> THEN <<>>
    ELSE LET y == IF b = <<>> THEN 0 ELSE Head(b)
             t == Head(a) - y - c
         IN  <<t % Base>> \o BSubC(Tail(a),
                                   IF b = <<>> THEN <<>> ELSE Tail(b),
                                   IF t < 0 THEN 1 ELSE 0)

BSub(a, b) == BNorm(BSubC(a, b, 0))

\* -1, 0, 1 as a < b, a = b, a > b (both normalised)
RECURSIVE BCmpFrom(_, _, _)
BCmpFrom(a, b, i) ==
    IF i = 0 THEN 0
    ELSE IF a[i] < b[i] THEN -1
    ELSE IF a[i] > b[i] THEN 1
    ELSE BCmpFrom(a, b, i - 1)

BCmp(a, b) ==
    IF Len(a) < Len(b) THEN -1
    ELSE IF Len(a) > Len(b) THEN 1
    ELSE BCmpFrom(a, b, Len(a))

\* a * k + c for 0 <= k, c < Base
RECURSIVE BMulSmallC(_, _, _)
BMulSmallC(a, k, c) ==
    IF a = <<>> THEN (IF c = 0 THEN <<>> ELSE <<c>>)
    ELSE LET t == Head(a) * k + c
         IN  <<t % Base>> \o BMulSmallC(Tail(a), k, t \div Base)

BMulSmall(a, k) == BNorm(BMulSmallC(a, k, 0))

RECURSIVE BMul(_, _)
BMul(a, b) ==
    IF a = <<>> \/ b = <<>> THEN <<>>
    ELSE BAdd(BMulSmall(a, Head(b)),
              LET r == BMul(a, Tail(b)) IN IF r = <<>> THEN <<>> ELSE <<0>> \o r)

\* long division of a by 0 < k < Base * 2: [q |-> a \div k, r |-> a % k]
RECURSIVE BDivFrom(_, _, _, _)
BDivFrom(a, k, i, r) ==
    IF i = 0 THEN [q |-> <<>>, r |-> r]
    ELSE LET t    == r * Base + a[i]
             rest == BDivFrom(a, k, i - 1, t % k)
         IN  [q |-> rest.q \o <<t \div k>>, r |-> rest.r]

BDivSmall(a, k) ==
    LET d == BDivFrom(a, k, Len(a), 0) IN [q |-> BNorm(d.q), r |-> d.r]

RECURSIVE Zeros(_)
Zeros(n) == IF n = 0 THEN <<>> ELSE <<0>> \o Zeros(n - 1)

\* a * 2^n
BShl(a, n) ==
    IF a = <<>> THEN <<>>
    ELSE Zeros(n \div LimbBits) \o BMulSmall(a, 2 ^ (n % LimbBits))

\* a \div 2^n
BShr(a, n) ==
    LET drop == n \div LimbBits
    IN  IF drop >= Len(a) THEN <<>>
        ELSE BDivSmall(SubSeq(a, drop + 1, Len(a)), 2 ^ (n % LimbBits)).q

BBitLen(a) ==
    IF a = <<>> THEN 0 ELSE LimbBits * (Len(a) - 1) + IntBitLen(a[Len(a)])

BIsOdd(a) == a # <<>> /\ Head(a) % 2 = 1

RECURSIVE IntTrailingZeros(_)
IntTrailingZeros(n) == IF n % 2 = 1 THEN 0 ELSE 1 + IntTrailingZeros(n \div 2)

\* the number of trailing zero bits of a # 0
RECURSIVE BTrailingZeros(_)
BTrailingZeros(a) ==
    IF Head(a) = 0 THEN LimbBits + BTrailingZeros(Tail(a))
    ELSE IntTrailingZeros(Head(a))

(***************************************************************************)
(* binary64 values.  A finite value is s * m * 2^e with s in {1, -1} and m *)
(* zero or odd (the canonical form, so that equal values are equal         *)
(* records).  The two zeros are one value: every comparison the code makes *)
(* treats -0.0 as 0.0, and round() maps both to 0.                         *)
(***************************************************************************)
Fin(s, m, e) == [k |-> "fin", s |-> s, m |-> m, e |-> e]

FZero == Fin(1, <<>>, 0)

FNaN == [k |-> "nan", s |-> 1, m |-> <<>>, e |-> 0]

FInf(s) == [k |-> "inf", s |-> s, m |-> <<>>, e |-> 0]

Canon(s, n, e) ==
    IF n = <<>> THEN FZero
    ELSE LET tz == BTrailingZeros(n) IN Fin(s, BShr(n, tz), e + tz)

\* q, or q + 1 when the dropped part c (-1, 0, 1: below, at, above one half)
\* rounds up to the nearest, ties to even
HalfEven(q, c) ==
    IF c > 0 \/ (c = 0 /\ BIsOdd(q)) THEN BAdd(q, <<1>>) ELSE q

\* n \div 2^sh given as q, with the dropped bits rounded half to even
RoundQuot(n, sh, q) ==
    HalfEven(q, BCmp(BSub(n, BShl(q, sh)), BShl(<<1>>, sh - 1)))

\* n / 2^sh to the nearest natural, ties to even (sh >= 1)
RoundShr(n, sh) == RoundQuot(n, sh, BShr(n, sh))

RoundBits(s, n, e, len) ==
    IF len <= MantissaBits THEN Canon(s, n, e)
    ELSE Canon(s, RoundShr(n, len - MantissaBits), e + len - MantissaBits)

\* s * n * 2^e rounded to the nearest binary64, ties to even
RoundFin(s, n, e) == RoundBits(s, n, e, BBitLen(n))

\* float(i) for an int i of the model's range
FromInt(i) == IF i < 0 THEN Canon(-1, BFromInt(-i), 0) ELSE Canon(1, BFromInt(i), 0)

FNeg(x) == IF x.k = "nan" \/ (x.k = "fin" /\ x.m = <<>>) THEN x ELSE [x EXCEPT !.s = -x.s]

FIsZero(x) == x.k = "fin" /\ x.m = <<>>

FMul(x, y) ==
    IF x.k = "nan" \/ y.k = "nan" THEN FNaN
    ELSE IF x.k = "inf" \/ y.k = "inf"
         THEN (IF FIsZero(x) \/ FIsZero(y) THEN FNaN ELSE FInf(x.s * y.s))
    ELSE RoundFin(x.s * y.s, BMul(x.m, y.m), x.e + y.e)

MinInt(a, b) == IF a < b THEN a ELSE b

\* sa * a + sb * b as a sign and a magnitude
SignedSum(sa, a, sb, b) ==
    IF sa = sb THEN [s |-> sa, n |-> BAdd(a, b)]
    ELSE IF BCmp(a, b) >= 0 THEN [s |-> sa, n |-> BSub(a, b)]
    ELSE [s |-> sb, n |-> BSub(b, a)]

RoundSigned(t, e) == RoundFin(t.s, t.n, e)

\* x + y for finite non-zero x and y, both scaled to the exponent e
FAddAt(x, y, e) ==
    RoundSigned(SignedSum(x.s, BShl(x.m, x.e - e), y.s, BShl(y.m, y.e - e)), e)

\* the sum of two finite values
FAddFin(x, y) ==
    IF x.m = <<>> THEN y
    ELSE IF y.m = <<>> THEN x
    ELSE FAddAt(x, y, MinInt(x.e, y.e))

FAdd(x, y) ==
    IF x.k = "nan" \/ y.k = "nan" THEN FNaN
    ELSE IF x.k = "inf" /\ y.k = "inf" THEN (IF x.s = y.s THEN x ELSE FNaN)
    ELSE IF x.k = "inf" THEN x
    ELSE IF y.k = "inf" THEN y
    ELSE FAddFin(x, y)

FSub(x, y) == FAdd(x, FNeg(y))

\* x / d for a float d = dm * 2^de with 0 < dm < Base (every divisor of the
\* code is such a constant): the quotient to 56 bits or more, a sticky bit
\* for the remainder, then one rounding
\* twice the quotient d.q, plus one when the remainder d.r is not zero
Sticky(d) == BAddC(BShl(d.q, 1), <<>>, IF d.r = 0 THEN 0 ELSE 1)

FDivShifted(x, ds, dm, de, sh) ==
    RoundFin(x.s * ds, Sticky(BDivSmall(BShl(x.m, sh), dm)), x.e - sh - 1 - de)

FDivSmall(x, ds, dm, de) ==
    IF x.k = "nan" THEN FNaN
    ELSE IF x.k = "inf" THEN FInf(x.s * ds)
    ELSE IF x.m = <<>> THEN FZero
    ELSE FDivShifted(x, ds, dm, de, 2 * LimbBits + MantissaBits - BBitLen(x.m))

FDiv(x, y) == FDivSmall(x, y.s, BToInt(y.m), y.e)

\* -1, 0 or 1: the sign of x
FSign(x) == IF FIsZero(x) THEN 0 ELSE x.s

\* the sign of x - y for finite x and y, both scaled to the exponent e
FCmpAt(x, y, e) ==
    IF FSign(x) # FSign(y) THEN (IF FSign(x) < FSign(y) THEN -1 ELSE 1)
    ELSE FSign(x) * BCmp(BShl(x.m, x.e - e), BShl(y.m, y.e - e))

\* the sign of x - y for x and y not NaN
FCmp(x, y) ==
    IF x.k = "inf" /\ y.k = "inf" THEN (IF x.s = y.s THEN 0 ELSE x.s)
    ELSE IF x.k = "inf" THEN x.s
    ELSE IF y.k = "inf" THEN -y.s
    ELSE FCmpAt(x, y, MinInt(x.e, y.e))

\* comparisons; every comparison with a NaN is false
FLt(x, y) ==
    IF x.k = "nan" \/ y.k = "nan" THEN FALSE ELSE FCmp(x, y) < 0

FLe(x, y) ==
    IF x.k = "nan" \/ y.k = "nan" THEN FALSE ELSE ~FLt(y, x)

FGt(x, y) == FLt(y, x)

(***************************************************************************)
(* Python's built-ins as the engine uses them.  A call either returns or   *)
(* raises: [exc |-> "none", val |-> v] or [exc |-> <exception>, val |-> d] *)
(* with d a fixed filler.                                                  *)
(***************************************************************************)
Ret(v) == [exc |-> "none", val |-> v]

Raise(e, filler) == [exc |-> e, val |-> filler]

\* max(a, b) of two ints
PyMax(a, b) == IF b > a THEN b ELSE a

\* variant of round(): ties go away from zero
PyRound_HalfUp(x) ==
    IF x.k = "nan" THEN Raise("ValueError", 0)
    ELSE IF x.k = "inf" THEN Raise("OverflowError", 0)
    ELSE IF x.m = <<>> THEN Ret(0)
    ELSE IF x.e >= 0 THEN Ret(x.s * BToInt(BShl(x.m, x.e)))
    ELSE Ret(x.s * BToInt(BShr(BAdd(x.m, BShl(<<1>>, -x.e - 1)), -x.e)))

\* round(x) of a float: the nearest int, ties to even; round(nan) raises
\* ValueError and round(+-inf) raises OverflowError
PyRound(x) ==
    IF x.k = "nan" THEN Raise("ValueError", 0)
    ELSE IF x.k = "inf" THEN Raise("OverflowError", 0)
    ELSE IF x.m = <<>> THEN Ret(0)
    ELSE IF x.e >= 0 THEN Ret(x.s * BToInt(BShl(x.m, x.e)))
    ELSE Ret(x.s * BToInt(RoundShr(x.m, -x.e)))

RECURSIVE BDivPow10(_, _)
BDivPow10(n, scale) ==
    IF scale = 0 THEN [q |-> n, r |-> 0]
    ELSE LET d    == BDivSmall(n, 10)
             rest == BDivPow10(d.q, scale - 1)
         IN  [q |-> rest.q, r |-> IF d.r # 0 THEN 1 ELSE rest.r]

\* the float nearest to s * n / 10^scale: what a decimal literal and float()
\* of a decimal string give (correctly rounded, ties to even)
DecimalShifted(s, n, scale, sh) ==
    RoundFin(s, Sticky(BDivPow10(BShl(n, sh), scale)), -sh - 1)

Decimal(s, n, scale) ==
    IF scale = 0 THEN RoundFin(s, n, 0)
    ELSE IF n = <<>> THEN FZero
    ELSE DecimalShifted(s, n, scale,
                        PyMax(0, MantissaBits + 3 + 4 * scale - BBitLen(n)))

\* a decimal literal of the source, digits / 10^scale
Lit(digits, scale) == Decimal(1, BFromInt(digits), scale)

(***************************************************************************)
(* Strings are sequences of one-character strings.  The characters the     *)
(* model knows are those of Chars; float() is modelled for strings over    *)
(* Chars (no exponent, underscore, upper-case or non-ASCII form occurs).   *)
(***************************************************************************)
Digits == {"0", "1", "2", "3", "4", "5", "6", "7", "8", "9"}

Chars == Digits \cup {" ", "'", "\"", "c", "m", "-", "+", ".", "n", "a", "i", "f", "t", "y"}

DigitVal(c) ==
    CASE c = "0" -> 0 [] c = "1" -> 1 [] c = "2" -> 2 [] c = "3" -> 3 [] c = "4" -> 4
      [] c = "5" -> 5 [] c = "6" -> 6 [] c = "7" -> 7 [] c = "8" -> 8 [] c = "9" -> 9

IsSpace(c) == c = " "

\* str.replace(old, new): every non-overlapping occurrence, left to right
RECURSIVE StrReplace(_, _, _)
StrReplace(s, old, new) ==
    IF Len(s) < Len(old) THEN s
    ELSE IF SubSeq(s, 1, Len(old)) = old
         THEN new \o StrReplace(SubSeq(s, Len(old) + 1, Len(s)), old, new)
    ELSE <<Head(s)>> \o StrReplace(Tail(s), old, new)

RECURSIVE LStrip(_)
LStrip(s) == IF s # <<>> /\ IsSpace(Head(s)) THEN LStrip(Tail(s)) ELSE s

RECURSIVE RStrip(_)
RStrip(s) ==
    IF s # <<>> /\ IsSpace(s[Len(s)]) THEN RStrip(SubSeq(s, 1, Len(s) - 1)) ELSE s

StrStrip(s) == RStrip(LStrip(s))

\* str.split(): the maximal runs of non-whitespace characters
RECURSIVE SplitFrom(_, _)
SplitFrom(s, cur) ==
    IF s = <<>> THEN (IF cur = <<>> THEN <<>> ELSE <<cur>>)
    ELSE IF IsSpace(Head(s))
         THEN (IF cur = <<>> THEN <<>> ELSE <<cur>>) \o SplitFrom(Tail(s), <<>>)
    ELSE SplitFrom(Tail(s), cur \o <<Head(s)>>)

StrSplit(s) == SplitFrom(s, <<>>)

RECURSIVE DigitsToBig(_, _)
DigitsToBig(s, acc) ==
    IF s = <<>> THEN acc
    ELSE DigitsToBig(Tail(s), BAdd(BMulSmall(acc, 10), BFromInt(DigitVal(Head(s)))))

CountOf(s, c) == Cardinality({i \in 1..Len(s) : s[i] = c})

\* float(s): surrounding whitespace is dropped, then an optional sign and
\* either nan, inf, infinity or digits with at most one point
PyFloat(s) ==
    LET t      == StrStrip(s)
        signed == t # <<>> /\ Head(t) \in {"+", "-"}
        sg     == IF signed /\ Head(t) = "-" THEN -1 ELSE 1
        body   == IF signed THEN Tail(t) ELSE t
        nopt   == SelectSeq(body, LAMBDA c : c # ".")
        point  == IF CountOf(body, ".") = 0 THEN Len(body)
                  ELSE CHOOSE i \in 1..Len(body) : body[i] = "."
    IN  IF body = <<"n", "a", "n">> THEN Ret(FNaN)
        ELSE IF body = <<"i", "n", "f">>
                \/ body = <<"i", "n", "f", "i", "n", "i", "t", "y">> THEN Ret(FInf(sg))
        ELSE IF nopt # <<>>
                /\ \A i \in 1..Len(nopt) : nopt[i] \in Digits
                /\ CountOf(body, ".") <= 1
             THEN Ret(Decimal(sg, DigitsToBig(nopt, <<>>), Len(body) - point))
        ELSE Raise("ValueError", FZero)

(***************************************************************************)
(* The engine, app/services/macro_calculator.py.  The three module-level   *)
(* tables are objects every call reads when it runs: they are state.       *)
(***************************************************************************)
VARIABLES ACTIVITY_MULTIPLIERS, PROTEIN_PER_LB, FAT_PERCENT

tables == <<ACTIVITY_MULTIPLIERS, PROTEIN_PER_LB, FAT_PERCENT>>

InitActivityMultipliers == <<Lit(12, 1), Lit(1375, 3), Lit(155, 2), Lit(1725, 3), Lit(19, 1)>>

InitProteinPerLb == (0 :> Lit(9, 1)) @@ (1 :> Lit(8, 1)) @@ (2 :> Lit(10, 1)) @@ (3 :> Lit(7, 1))

InitFatPercent == (0 :> Lit(28, 2)) @@ (1 :> Lit(28, 2)) @@ (2 :> Lit(25, 2)) @@ (3 :> Lit(28, 2))

InitTables ==
    /\ ACTIVITY_MULTIPLIERS = InitActivityMultipliers
    /\ PROTEIN_PER_LB = InitProteinPerLb
    /\ FAT_PERCENT = InitFatPercent

CALORIES_PER_GRAM_PROTEIN == Lit(40, 1)

CALORIES_PER_GRAM_CARBS == Lit(40, 1)

\* variant of the fat constant: fat counted at 4 kcal per gram
CALORIES_PER_GRAM_FAT_AsCarbs == Lit(40, 1)

CALORIES_PER_GRAM_FAT == Lit(90, 1)

CM_PER_FOOT == Lit(3048, 2)

CM_PER_INCH == Lit(254, 2)

KG_PER_LB == Lit(453592, 6)

\* dict.get(key, default)
DictGet(d, key, default) == IF key \in DOMAIN d THEN d[key] ELSE default

\* feet * 30.48 of the one-token branch; float() raising ValueError gives 0.0
HeightOfFeet(feet) ==
    IF feet.exc = "ValueError" THEN FZero ELSE FMul(feet.val, CM_PER_FOOT)

\* variant of the two-token branch: inches that do not parse count as 0
HeightOfFeetInches_InchesOptional(feet, inches) ==
    IF feet.exc = "ValueError" THEN FZero
    ELSE IF inches.exc = "ValueError" THEN FMul(feet.val, CM_PER_FOOT)
    ELSE FAdd(FMul(feet.val, CM_PER_FOOT), FMul(inches.val, CM_PER_INCH))

\* feet * 30.48 + inches * 2.54; float() raising ValueError gives 0.0
HeightOfFeetInches(feet, inches) ==
    IF feet.exc = "ValueError" \/ inches.exc = "ValueError" THEN FZero
    ELSE FAdd(FMul(feet.val, CM_PER_FOOT), FMul(inches.val, CM_PER_INCH))

\* variant of the branches: a text of three or more tokens is no height
HeightOfParts_AtMostTwo(parts) ==
    IF Len(parts) > 2 THEN FZero
    ELSE IF Len(parts) < 2
    THEN IF parts = <<>> THEN FMul(FromInt(0), CM_PER_FOOT)
         ELSE HeightOfFeet(PyFloat(parts[1]))
    ELSE HeightOfFeetInches(PyFloat(parts[1]), PyFloat(parts[2]))

\* the two branches on the tokens left by split()
HeightOfParts(parts) ==
    IF Len(parts) < 2
    THEN IF parts = <<>> THEN FMul(FromInt(0), CM_PER_FOOT)
         ELSE HeightOfFeet(PyFloat(parts[1]))
    ELSE HeightOfFeetInches(PyFloat(parts[1]), PyFloat(parts[2]))

\* the feet / inches steps of height_to_cm, on the original text
HeightFeetInches(height_text) ==
    HeightOfParts(StrSplit(StrReplace(StrReplace(height_text, <<"\"">>, <<>>),
                                      <<"'">>, <<" ">>)))

\* variant of the centimetre step: a value of 100 or more is returned
HeightOfCm_AtLeast100(height_text, cm_value) ==
    IF cm_value.exc = "none" /\ FLe(FromInt(100), cm_value.val) THEN cm_value.val
    ELSE HeightFeetInches(height_text)

\* variant of the centimetre step: a value of 100 or less is taken as feet
HeightOfCm_CleanedAsFeet(height_text, cm_value) ==
    IF cm_value.exc # "none" THEN HeightFeetInches(height_text)
    ELSE IF FGt(cm_value.val, FromInt(100)) THEN cm_value.val
    ELSE FMul(cm_value.val, CM_PER_FOOT)

\* the centimetre step: cm_value is float() of the text without " cm" and
\* "cm"; a value above 100 is returned as it is
HeightOfCm(height_text, cm_value) ==
    IF cm_value.exc = "none" /\ FGt(cm_value.val, FromInt(100)) THEN cm_value.val
    ELSE HeightFeetInches(height_text)

height_to_cm(height_text) ==
    HeightOfCm(height_text,
               PyFloat(StrReplace(StrReplace(height_text, <<" ", "c", "m">>, <<>>),
                                  <<"c", "m">>, <<>>)))

lbs_to_kg(lbs) == FMul(FromInt(lbs), KG_PER_LB)

\* the last step of calculate_bmr: base + 5 for men, base - 161 for women
BmrOfBase(base, is_male) ==
    IF is_male THEN FAdd(base, FromInt(5)) ELSE FSub(base, FromInt(161))

calculate_bmr(weight_kg, height_cm, age_years, is_male) ==
    BmrOfBase(FSub(FAdd(FMul(FromInt(10), weight_kg), FMul(Lit(625, 2), height_cm)),
                   FromInt(5 * age_years)),
              is_male)

\* variant of the multiplier: no lower bound on the index, so that a negative
\* index counts from the end of the list
Multiplier_NegativeIndex(activity_index) ==
    IF activity_index < Len(ACTIVITY_MULTIPLIERS) /\ -activity_index <= Len(ACTIVITY_MULTIPLIERS)
    THEN ACTIVITY_MULTIPLIERS[IF activity_index < 0
                              THEN Len(ACTIVITY_MULTIPLIERS) + activity_index + 1
                              ELSE activity_index + 1]
    ELSE Lit(12, 1)

\* the multiplier of calculate_tdee: the table entry, or 1.2 outside it
Multiplier(activity_index) ==
    IF 0 <= activity_index /\ activity_index < Len(ACTIVITY_MULTIPLIERS)
    THEN ACTIVITY_MULTIPLIERS[activity_index + 1]
    ELSE Lit(12, 1)

calculate_tdee(bmr, activity_index) == FMul(bmr, Multiplier(activity_index))

adjustments == (0 :> Lit(11, 1)) @@ (1 :> Lit(12, 1)) @@ (2 :> Lit(8, 1)) @@ (3 :> Lit(10, 1))

\* variant of the adjustment: an unknown goal counts as fat loss
Adjustment_DefaultFatLoss(goal_index) == DictGet(adjustments, goal_index, Lit(8, 1))

\* adjustments.get(goal_index, 1.0)
Adjustment(goal_index) == DictGet(adjustments, goal_index, Lit(10, 1))

\* variant of the target calories: the TDEE is rounded before the adjustment
calculate_target_calories_RoundedTdee(tdee, goal_index) ==
    PyRound(FMul(FromInt(PyRound(tdee).val), Adjustment(goal_index)))

calculate_target_calories(tdee, goal_index) ==
    PyRound(FMul(tdee, Adjustment(goal_index)))

\* variant of the protein lookup: every goal gets the default 0.8 g/lb
ProteinPerLb_AlwaysDefault(goal_index) == Lit(8, 1)

\* PROTEIN_PER_LB.get(goal_index, 0.8)
ProteinPerLb(goal_index) == DictGet(PROTEIN_PER_LB, goal_index, Lit(8, 1))

\* variant of the fat lookup: every goal gets the default 28 %
FatPercent_AlwaysDefault(goal_index) == Lit(28, 2)

\* FAT_PERCENT.get(goal_index, 0.28)
FatPercent(goal_index) == DictGet(FAT_PERCENT, goal_index, Lit(28, 2))

\* variant of the return of calculate_macros: carbs are not clamped at 0
MacrosReturn_NoClamp(protein_grams, fat_grams, carbs_round) ==
    IF protein_grams.exc # "none" THEN Raise(protein_grams.exc, <<0, 0, 0>>)
    ELSE IF fat_grams.exc # "none" THEN Raise(fat_grams.exc, <<0, 0, 0>>)
    ELSE IF carbs_round.exc # "none" THEN Raise(carbs_round.exc, <<0, 0, 0>>)
    ELSE Ret(<<protein_grams.val, carbs_round.val, fat_grams.val>>)

\* the return of calculate_macros; a round() that raised ends the call, the
\* first one in the order of the statements
MacrosReturn(protein_grams, fat_grams, carbs_round) ==
    IF protein_grams.exc # "none" THEN Raise(protein_grams.exc, <<0, 0, 0>>)
    ELSE IF fat_grams.exc # "none" THEN Raise(fat_grams.exc, <<0, 0, 0>>)
    ELSE IF carbs_round.exc # "none" THEN Raise(carbs_round.exc, <<0, 0, 0>>)
    ELSE Ret(<<protein_grams.val, PyMax(0, carbs_round.val), fat_grams.val>>)

\* calculate_macros from protein_grams and fat_calories on: protein calories,
\* fat grams, then carbs from the remaining calories
MacrosFrom(target_calories, protein_grams, fat_calories) ==
    MacrosReturn(protein_grams,
                 PyRound(FDiv(fat_calories, CALORIES_PER_GRAM_FAT)),
                 PyRound(FDiv(FSub(FSub(FromInt(target_calories),
                                        FMul(FromInt(protein_grams.val),
                                             CALORIES_PER_GRAM_PROTEIN)),
                                   fat_calories),
                              CALORIES_PER_GRAM_CARBS)))

\* (protein, carbs, fat) in grams
calculate_macros(target_calories, goal_index, weight_lbs) ==
    MacrosFrom(target_calories,
               PyRound(FMul(FromInt(weight_lbs), ProteinPerLb(goal_index))),
               FMul(FromInt(target_calories), FatPercent(goal_index)))

FALLBACK_MACROS == <<2000, 120, 200, 65>>

\* the return of calculate_all_macros on the computed path
AllMacrosReturn(target_calories, macros) ==
    IF macros.exc # "none" THEN Raise(macros.exc, <<0, 0, 0, 0>>)
    ELSE Ret(<<target_calories, macros.val[1], macros.val[2], macros.val[3]>>)

\* calculate_all_macros from the rounded target calories on
MacrosForCalories(target_calories, goal_type_index, weight_lbs) ==
    IF target_calories.exc # "none" THEN Raise(target_calories.exc, <<0, 0, 0, 0>>)
    ELSE AllMacrosReturn(target_calories.val,
                         calculate_macros(target_calories.val, goal_type_index,
                                          weight_lbs))

\* variant of the gate: strict comparisons, so that a zero input is computed
MacrosOfConverted_StrictGate(weight_lbs, weight_kg, height_cm, age_years, is_male, activity_level_index, goal_type_index) ==
    IF FLt(weight_kg, FromInt(0)) \/ FLt(height_cm, FromInt(0)) \/ age_years < 0
    THEN Ret(FALLBACK_MACROS)
    ELSE MacrosForCalories(
             calculate_target_calories(
                 calculate_tdee(calculate_bmr(weight_kg, height_cm, age_years, is_male),
                                activity_level_index),
                 goal_type_index),
             goal_type_index, weight_lbs)

\* calculate_all_macros after the two conversions: the gate on the inputs,
\* then BMR, TDEE, target calories and the macro split
MacrosOfConverted(weight_lbs, weight_kg, height_cm, age_years, is_male, activity_level_index, goal_type_index) ==
    IF FLe(weight_kg, FromInt(0)) \/ FLe(height_cm, FromInt(0)) \/ age_years <= 0
    THEN Ret(FALLBACK_MACROS)
    ELSE MacrosForCalories(
             calculate_target_calories(
                 calculate_tdee(calculate_bmr(weight_kg, height_cm, age_years, is_male),
                                activity_level_index),
                 goal_type_index),
             goal_type_index, weight_lbs)

\* (calories, protein, carbs, fat), or the exception that leaves the call
calculate_all_macros(weight_lbs, height_text, age_years, is_male, activity_level_index, goal_type_index) ==
    MacrosOfConverted(weight_lbs, lbs_to_kg(weight_lbs), height_to_cm(height_text),
                      age_years, is_male, activity_level_index, goal_type_index)

\* variant of the tables after a call: the call takes the multiplier it uses
\* out of the list (list.pop in place of a subscript)
TablesAfterCall_Pop(weight_lbs, height_text, age_years, is_male, activity_level_index, goal_type_index) ==
    <<IF activity_level_index \in 0..(Len(ACTIVITY_MULTIPLIERS) - 1)
      THEN SubSeq(ACTIVITY_MULTIPLIERS, 1, activity_level_index)
               \o SubSeq(ACTIVITY_MULTIPLIERS, activity_level_index + 2,
                         Len(ACTIVITY_MULTIPLIERS))
      ELSE ACTIVITY_MULTIPLIERS,
      PROTEIN_PER_LB, FAT_PERCENT>>

\* what a call of calculate_all_macros leaves in the three tables: the code
\* only reads them (subscript and .get), so they are as before
TablesAfterCall(weight_lbs, height_text, age_years, is_male, activity_level_index, goal_type_index) ==
    <<ACTIVITY_MULTIPLIERS, PROTEIN_PER_LB, FAT_PERCENT>>

(***************************************************************************)
(* Callers of the engine.                                                  *)
(*   SpecEngine: one call of calculate_all_macros on any argument tuple of *)
(*               EngineArgs.                                               *)
(*   SpecCalls:  any sequence of at most MaxCalls calls, logged.           *)
(*   SpecHeight: one call of height_to_cm on any text of HeightTexts.      *)
(***************************************************************************)
VARIABLES args, result, epc, log, h_text, h_cm, hpc

engine == <<args, result, epc>>

height == <<h_text, h_cm, hpc>>

Str5ft10 == <<"5", "'", "1", "0", "\"">>

Str178cm == <<"1", "7", "8", " ", "c", "m">>

StrNan == <<"n", "a", "n">>

StrInf == <<"i", "n", "f">>

WeightSamples == {-1, 0, 45, 165}

HeightSamples ==
    {Str5ft10, Str178cm, <<>>, <<"6">>, <<"-", "5">>, StrNan, StrInf, <<"0", "'", "1", "\"">>}

AgeSamples == {-1, 0, 21, 150}

ActivitySamples == {-1, 0, 2, 4, 5, 99}

GoalSamples == {-1, 0, 1, 2, 3, 4, 99}

EngineArgs ==
    [weight_lbs : WeightSamples, height_text : HeightSamples, age_years : AgeSamples,
     is_male : BOOLEAN, activity_level_index : ActivitySamples,
     goal_type_index : GoalSamples]

DefaultArgs ==
    [weight_lbs |-> 165, height_text |-> Str5ft10, age_years |-> 21, is_male |-> TRUE,
     activity_level_index |-> 2, goal_type_index |-> 0]

Apply(a) ==
    calculate_all_macros(a.weight_lbs, a.height_text, a.age_years, a.is_male,
                         a.activity_level_index, a.goal_type_index)

TablesAfter(a) ==
    TablesAfterCall(a.weight_lbs, a.height_text, a.age_years, a.is_male,
                    a.activity_level_index, a.goal_type_index)

\* the tables as the call leaves them
StoreTables(t) ==
    /\ ACTIVITY_MULTIPLIERS' = t[1]
    /\ PROTEIN_PER_LB' = t[2]
    /\ FAT_PERCENT' = t[3]

NoResult == Ret(<<0, 0, 0, 0>>)

IdleEngine == args = DefaultArgs /\ result = NoResult /\ epc = "idle"

IdleHeight == h_text = <<>> /\ h_cm = FZero /\ hpc = "idle"

\* the caller invokes calculate_all_macros(args) and keeps what it gets
EngineCall ==
    /\ epc = "ready"
    /\ result' = Apply(args)
    /\ StoreTables(TablesAfter(args))
    /\ epc' = "done"
    /\ UNCHANGED args

\* callers with a few argument tuples, calling again and again
CallArgs ==
    {DefaultArgs,
     [DefaultArgs EXCEPT !.goal_type_index = 2],
     [DefaultArgs EXCEPT !.goal_type_index = 99, !.activity_level_index = 99],
     [DefaultArgs EXCEPT !.weight_lbs = 45, !.goal_type_index = 3, !.is_male = FALSE],
     [DefaultArgs EXCEPT !.height_text = <<>>],
     [DefaultArgs EXCEPT !.height_text = StrNan]}

MaxCalls == 3

LoggedCall(a) ==
    /\ Len(log) < MaxCalls
    /\ log' = Append(log, [args |-> a, result |-> Apply(a)])
    /\ StoreTables(TablesAfter(a))

\* every text of at most n characters of cs
RECURSIVE TextsUpTo(_, _)
TextsUpTo(cs, n) ==
    IF n = 0 THEN {<<>>}
    ELSE LET shorter == TextsUpTo(cs, n - 1)
         IN  shorter \cup {<<c>> \o t : c \in cs, t \in {x \in shorter : Len(x) = n - 1}}

MaxHeightLen == 3

HeightChars == {"0", "1", "5", "'", " ", "-", "c", "m"}

HeightTexts == HeightSamples \cup {<<"1", "0", "0">>, <<"5", "0">>, <<"1", "0", "0", ".", "5">>,
                                   <<"5", " ", "1", " ", "m">>}
                   \cup TextsUpTo(HeightChars, MaxHeightLen)

HeightCall ==
    /\ hpc = "ready"
    /\ h_cm' = height_to_cm(h_text)
    /\ hpc' = "done"
    /\ UNCHANGED h_text

(***************************************************************************)
(* Concurrent calls of calculate_all_macros: each thread runs the function *)
(* statement by statement with its own locals; the threads share the three *)
(* module-level tables, which a call reads at calculate_tdee (the          *)
(* multiplier) and twice in calculate_macros (protein per lb, fat          *)
(* percent).  Threads interleave between any two statements.               *)
(***************************************************************************)
VARIABLES threads

NumThreads == 2

ThreadArgs ==
    {DefaultArgs,
     [DefaultArgs EXCEPT !.goal_type_index = 99, !.activity_level_index = 99],
     [DefaultArgs EXCEPT !.height_text = <<>>],
     [DefaultArgs EXCEPT !.height_text = StrNan]}

\* a thread about to call calculate_all_macros(a)
Called(a) ==
    [args |-> a, pc |-> "convert", weight_kg |-> FZero, height_cm |-> FZero,
     bmr |-> FZero, tdee |-> FZero, target_calories |-> Ret(0),
     protein_grams |-> Ret(0), result |-> NoResult]

IdleThreads == threads = <<>>

\* lines 139-140: the two conversions
Convert(t) ==
    /\ threads[t].pc = "convert"
    /\ threads' = [threads EXCEPT
           ![t].weight_kg = lbs_to_kg(threads[t].args.weight_lbs),
           ![t].height_cm = height_to_cm(threads[t].args.height_text),
           ![t].pc = "gate"]
    /\ UNCHANGED tables

\* lines 143-144: the gate and the fallback return
Gate(t) ==
    /\ threads[t].pc = "gate"
    /\ IF \/ FLe(threads[t].weight_kg, FromInt(0))
          \/ FLe(threads[t].height_cm, FromInt(0))
          \/ threads[t].args.age_years <= 0
       THEN threads' = [threads EXCEPT ![t].result = Ret(FALLBACK_MACROS), ![t].pc = "done"]
       ELSE threads' = [threads EXCEPT ![t].pc = "bmr"]
    /\ UNCHANGED tables

\* line 147
Bmr(t) ==
    /\ threads[t].pc = "bmr"
    /\ threads' = [threads EXCEPT
           ![t].bmr = calculate_bmr(threads[t].weight_kg, threads[t].height_cm,
                                    threads[t].args.age_years, threads[t].args.is_male),
           ![t].pc = "tdee"]
    /\ UNCHANGED tables

\* line 148: reads ACTIVITY_MULTIPLIERS
Tdee(t) ==
    /\ threads[t].pc = "tdee"
    /\ threads' = [threads EXCEPT
           ![t].tdee = calculate_tdee(threads[t].bmr, threads[t].args.activity_level_index),
           ![t].pc = "calories"]
    /\ StoreTables(TablesAfter(threads[t].args))

\* a thread that leaves the call with the exception of r, or goes on to next
RaiseOrGo(t, r, next) ==
    IF r.exc # "none"
    THEN [threads EXCEPT ![t].result = Raise(r.exc, <<0, 0, 0, 0>>), ![t].pc = "done"]
    ELSE next

\* line 149: round() may raise
Calories(t) ==
    /\ threads[t].pc = "calories"
    /\ threads' = RaiseOrGo(t, calculate_target_calories(threads[t].tdee,
                                                         threads[t].args.goal_type_index),
                            [threads EXCEPT
                                ![t].target_calories =
                                    calculate_target_calories(threads[t].tdee,
                                                              threads[t].args.goal_type_index),
                                ![t].pc = "protein"])
    /\ UNCHANGED tables

\* line 150, calculate_macros lines 106-107: reads PROTEIN_PER_LB
Protein(t) ==
    /\ threads[t].pc = "protein"
    /\ threads' = [threads EXCEPT
           ![t].protein_grams =
               PyRound(FMul(FromInt(threads[t].args.weight_lbs),
                            ProteinPerLb(threads[t].args.goal_type_index))),
           ![t].pc = "fat"]
    /\ UNCHANGED tables

\* calculate_macros lines 108-123: reads FAT_PERCENT; then the return
Fat(t) ==
    /\ threads[t].pc = "fat"
    /\ threads' = [threads EXCEPT
           ![t].result =
               AllMacrosReturn(threads[t].target_calories.val,
                               MacrosFrom(threads[t].target_calories.val,
                                          threads[t].protein_grams,
                                          FMul(FromInt(threads[t].target_calories.val),
                                               FatPercent(threads[t].args.goal_type_index)))),
           ![t].pc = "done"]
    /\ UNCHANGED tables

(***************************************************************************)
(* Dining data: the dining_halls and menu_items tables and their seeding   *)
(* from a menu provider (services/seed_data.py), with the menu handlers    *)
(* that seed lazily (api/menus.py).  A provider gives a list of halls with *)
(* distinct ids and a list of items; the id of a provider hall is the code *)
(* of the stored hall.  The row id of a menu item is left out.             *)
(***************************************************************************)
VARIABLES dining_halls, menu_items, menu_http

menus == <<dining_halls, menu_items, menu_http>>

\* DiningHallData
HallData(id, name, location) ==
    [id |-> id, name |-> name, short_name |-> name, location |-> location,
     description |-> name, image_url |-> location]

\* MenuItemData, with the fields seed_menu_items copies reduced to three
ItemData(dining_hall_id, name, meal_period) ==
    [dining_hall_id |-> dining_hall_id, name |-> name, meal_period |-> meal_period]

\* the provider with the seeded data, and one with other halls and items
Providers ==
    {[halls |-> <<HallData("bplate", "Bruin Plate", "Sproul Landing"),
                  HallData("epicuria", "Epicuria at Covel", "Covel Commons")>>,
      items |-> <<ItemData("bplate", "Oatmeal", "breakfast"),
                  ItemData("bplate", "Salmon", "dinner"),
                  ItemData("epicuria", "Pasta", "lunch")>>],
     [halls |-> <<HallData("de_neve", "De Neve", "De Neve Plaza"),
                  HallData("bplate", "B Plate", "Sproul")>>,
      items |-> <<ItemData("de_neve", "Burger", "lunch"),
                  ItemData("epicuria", "Pizza", "dinner")>>]}

Dates == {1, 2}

IdleMenus ==
    /\ dining_halls = <<>>
    /\ menu_items = <<>>
    /\ menu_http = [endpoint |-> "none", status |-> 0, count |-> 0]

\* the stored hall with this code is row HallWithCode of halls; 0: there is none
HallWithCode(halls, code) ==
    IF \E i \in 1..Len(halls) : halls[i].code = code
    THEN CHOOSE i \in 1..Len(halls) : halls[i].code = code
    ELSE 0

\* variant of the update: an existing hall is left as it is
UpdatedHall_Unchanged(existing, hall_data) == existing

\* lines 34-38: the existing hall with the provider's values
UpdatedHall(existing, hall_data) ==
    [existing EXCEPT !.name = hall_data.name, !.short_name = hall_data.short_name,
                     !.location = hall_data.location,
                     !.description = hall_data.description,
                     !.image_url = hall_data.image_url]

\* lines 41-48: a new hall, with the id the database gives it
NewHall(id, hall_data) ==
    [id |-> id, code |-> hall_data.id, name |-> hall_data.name,
     short_name |-> hall_data.short_name, location |-> hall_data.location,
     description |-> hall_data.description, image_url |-> hall_data.image_url,
     is_active |-> TRUE]

\* the loop of seed_dining_halls over the provider's halls from the k-th on:
\* the table and the count of created halls
RECURSIVE SeedHallsFrom(_, _, _, _)
SeedHallsFrom(halls, count, hall_list, k) ==
    IF k > Len(hall_list) THEN [halls |-> halls, count |-> count]
    ELSE IF HallWithCode(halls, hall_list[k].id) # 0
    THEN SeedHallsFrom([halls EXCEPT ![HallWithCode(halls, hall_list[k].id)] =
                                         UpdatedHall(@, hall_list[k])],
                       count, hall_list, k + 1)
    ELSE SeedHallsFrom(Append(halls, NewHall(Len(halls) + 1, hall_list[k])),
                       count + 1, hall_list, k + 1)

\* seed_dining_halls(db, provider) on the table halls
SeedDiningHalls(halls, provider) == SeedHallsFrom(halls, 0, provider.halls, 1)

\* lines 79-81: code -> db id
HallMap(halls) ==
    [code \in {halls[i].code : i \in 1..Len(halls)} |-> halls[HallWithCode(halls, code)].id]

\* hall_map.get(item_data.dining_hall_id); 0 stands for None
HallIdOrNone(hall_map, halls, code) ==
    IF code \in DOMAIN hall_map THEN hall_map[code] ELSE 0

\* lines 93-108: the row of one provider item
NewItem(dining_hall_db_id, item_data, menu_date) ==
    [dining_hall_id |-> dining_hall_db_id, name |-> item_data.name,
     meal_period |-> item_data.meal_period, menu_date |-> menu_date]

\* the loop of seed_menu_items over the provider's items from the k-th on
RECURSIVE SeedItemsFrom(_, _, _, _, _)
SeedItemsFrom(items, halls, item_list, menu_date, k) ==
    IF k > Len(item_list) THEN items
    ELSE IF HallIdOrNone(HallMap(halls), halls, item_list[k].dining_hall_id) = 0
    THEN SeedItemsFrom(items, halls, item_list, menu_date, k + 1)
    ELSE SeedItemsFrom(Append(items,
                              NewItem(HallIdOrNone(HallMap(halls), halls,
                                                   item_list[k].dining_hall_id),
                                      item_list[k], menu_date)),
                       halls, item_list, menu_date, k + 1)

\* variant of the delete of seed_menu_items: nothing is deleted
ItemsOfOtherDates_KeepAll(items, menu_date) == items

\* line 84: what the delete of the items of menu_date leaves
ItemsOfOtherDates(items, menu_date) ==
    SelectSeq(items, LAMBDA item : item.menu_date # menu_date)

\* seed_menu_items(db, menu_date, provider): the items table and the count
SeedMenuItems(halls, items, menu_date, provider) ==
    [items |-> ItemsOfOtherDates(items, menu_date)
                   \o SeedItemsFrom(<<>>, halls, provider.items, menu_date, 1),
     count |-> Len(SeedItemsFrom(<<>>, halls, provider.items, menu_date, 1))]

\* the number of stored items of a date, and of a hall on a date
ItemCount(items, menu_date) ==
    Len(SelectSeq(items, LAMBDA item : item.menu_date = menu_date))

HallItemCount(items, dining_hall, menu_date) ==
    Len(SelectSeq(items, LAMBDA item : item.menu_date = menu_date
                                        /\ item.dining_hall_id = dining_hall))

\* a call of seed_dining_halls
seed_dining_halls(provider) ==
    /\ dining_halls' = SeedDiningHalls(dining_halls, provider).halls
    /\ menu_http' = [endpoint |-> "seed_dining_halls", status |-> 0,
                     count |-> SeedDiningHalls(dining_halls, provider).count]
    /\ UNCHANGED menu_items

\* a call of seed_menu_items
seed_menu_items(menu_date, provider) ==
    /\ menu_items' = SeedMenuItems(dining_halls, menu_items, menu_date, provider).items
    /\ menu_http' = [endpoint |-> "seed_menu_items", status |-> menu_date,
                     count |-> SeedMenuItems(dining_halls, menu_items, menu_date,
                                             provider).count]
    /\ UNCHANGED dining_halls

\* api/menus.py: the halls after _ensure_data_seeded
EnsuredHalls(provider) ==
    IF Len(dining_halls) = 0 THEN SeedDiningHalls(dining_halls, provider).halls
    ELSE dining_halls

\* api/menus.py: the items after _ensure_data_seeded
EnsuredItems(today, provider) ==
    IF ItemCount(menu_items, today) = 0
    THEN SeedMenuItems(EnsuredHalls(provider), menu_items, today, provider).items
    ELSE menu_items

\* GET /menus/dining-halls
get_dining_halls(today, provider) ==
    /\ dining_halls' = EnsuredHalls(provider)
    /\ menu_items' = EnsuredItems(today, provider)
    /\ menu_http' = [endpoint |-> "GET /menus/dining-halls", status |-> 200,
                     count |-> Len(EnsuredHalls(provider))]

\* GET /menus of a hall id and a date
get_menu(dining_hall, menu_date, today, provider) ==
    /\ dining_halls' = EnsuredHalls(provider)
    /\ IF \A i \in 1..Len(EnsuredHalls(provider)) : EnsuredHalls(provider)[i].id # dining_hall
       THEN /\ menu_items' = EnsuredItems(today, provider)
            /\ menu_http' = [endpoint |-> "GET /menus", status |-> 404, count |-> 0]
       ELSE /\ menu_items' =
                   IF HallItemCount(EnsuredItems(today, provider), dining_hall, menu_date) = 0
                   THEN SeedMenuItems(EnsuredHalls(provider), EnsuredItems(today, provider),
                                      menu_date, provider).items
                   ELSE EnsuredItems(today, provider)
            /\ menu_http' = [endpoint |-> "GET /menus", status |-> 200,
                             count |-> HallItemCount(menu_items', dining_hall, menu_date)]

(***************************************************************************)
(* The application: the users and profiles tables, and the three writers   *)
(* of the stored macro targets.  A request handler runs in one database    *)
(* session and commits once at its end; an exception that leaves it closes *)
(* the session without a commit (core/database.py, get_db), so nothing of  *)
(* the request is stored.  Preference lists are stored as one             *)
(* comma-separated string each (api/auth.py, list_to_csv).                 *)
(***************************************************************************)
\* a preference list on its way through storage (auth.py 31-38)
VARIABLES submitted, stored_csv, returned, cpc

csv == <<submitted, stored_csv, returned, cpc>>

IdleCsv == submitted = <<>> /\ stored_csv = <<>> /\ returned = <<>> /\ cpc = "idle"

\* the database sessions of concurrent PUT /users/me requests (database.py 26-37)
VARIABLES sessions

IdleSessions == sessions = <<>>

VARIABLES SEED_DEMO_DATA, phase, users, profiles, http

app == <<SEED_DEMO_DATA, phase, users, profiles, http>>

vars == <<tables, engine, log, height, threads, menus, csv, sessions, app>>

DemoEmail == "demo@ucla.edu"

Emails == {DemoEmail, "a@ucla.edu"}

\* the last exchange: the endpoint, the status of the response, and whether
\* the handler called calculate_all_macros
Exchange(endpoint, status, called) ==
    [endpoint |-> endpoint, status |-> status, engine_called |-> called]

NoExchange == Exchange("none", 0, FALSE)

IdleApp ==
    /\ SEED_DEMO_DATA = FALSE
    /\ phase = "boot"
    /\ users = <<>>
    /\ profiles = <<>>
    /\ http = NoExchange

\* "Vit D,B12,Iron,Calcium"
CsvVitamins ==
    <<"V", "i", "t", " ", "D", ",", "B", "1", "2", ",", "I", "r", "o", "n", ",",
      "C", "a", "l", "c", "i", "u", "m">>

\* "BPlate,De Neve,Rendezvous"
CsvDiningHalls ==
    <<"B", "P", "l", "a", "t", "e", ",", "D", "e", " ", "N", "e", "v", "e", ",",
      "R", "e", "n", "d", "e", "z", "v", "o", "u", "s">>

\* sep.join(items)
RECURSIVE StrJoin(_, _)
StrJoin(items, sep) ==
    IF items = <<>> THEN <<>>
    ELSE IF Len(items) = 1 THEN items[1]
    ELSE items[1] \o sep \o StrJoin(Tail(items), sep)

\* api/auth.py: a list of strings as the comma-separated string that is stored
list_to_csv(items) == IF items # <<>> THEN StrJoin(items, <<",">>) ELSE <<>>

\* the column defaults of Profile, the targets apart
ProfileDefaults ==
    [age_years |-> 21, height_text |-> Str5ft10, weight_lbs |-> 165,
     goal_weight_lbs |-> 175, is_male |-> TRUE, activity_level_index |-> 2,
     goal_type_index |-> 0,
     selected_vitamins |-> CsvVitamins, dietary_restrictions |-> <<>>,
     disliked_foods |-> <<>>, selected_dining_halls |-> CsvDiningHalls,
     delivery_method_index |-> 0, appearance_index |-> 1]

\* the defaults of the request schema ProfileCreate: the preferences are lists
ProfileCreateDefaults ==
    [age_years |-> 21, height_text |-> Str5ft10, weight_lbs |-> 165,
     goal_weight_lbs |-> 175, is_male |-> TRUE, activity_level_index |-> 2,
     goal_type_index |-> 0,
     selected_vitamins |-> << <<"V", "i", "t", " ", "D">>, <<"B", "1", "2">>,
                              <<"I", "r", "o", "n">>,
                              <<"C", "a", "l", "c", "i", "u", "m">> >>,
     dietary_restrictions |-> <<>>, disliked_foods |-> <<>>,
     selected_dining_halls |-> << <<"B", "P", "l", "a", "t", "e">>,
                                  <<"D", "e", " ", "N", "e", "v", "e">>,
                                  <<"R", "e", "n", "d", "e", "z", "v", "o", "u", "s">> >>,
     delivery_method_index |-> 0, appearance_index |-> 1]

ListFields ==
    {"selected_vitamins", "dietary_restrictions", "disliked_foods",
     "selected_dining_halls"}

\* the value stored in column f for the request value v
Stored(f, v) == IF f \in ListFields THEN list_to_csv(v) ELSE v

\* the column values signup stores for a ProfileCreate body
ProfileColumns(profile_data) ==
    [f \in DOMAIN profile_data |-> Stored(f, profile_data[f])]

\* a profile row: the column values data and the four targets
Profile(data, targets) ==
    [age_years |-> data.age_years, height_text |-> data.height_text,
     weight_lbs |-> data.weight_lbs, goal_weight_lbs |-> data.goal_weight_lbs,
     is_male |-> data.is_male, activity_level_index |-> data.activity_level_index,
     goal_type_index |-> data.goal_type_index,
     calories_target |-> targets[1], protein_target |-> targets[2],
     carbs_target |-> targets[3], fat_target |-> targets[4],
     selected_vitamins |-> data.selected_vitamins,
     dietary_restrictions |-> data.dietary_restrictions,
     disliked_foods |-> data.disliked_foods,
     selected_dining_halls |-> data.selected_dining_halls,
     delivery_method_index |-> data.delivery_method_index,
     appearance_index |-> data.appearance_index]

Targets(p) == <<p.calories_target, p.protein_target, p.carbs_target, p.fat_target>>

\* calculate_all_macros on the six inputs of a profile or request body
MacrosOf(p) ==
    calculate_all_macros(p.weight_lbs, p.height_text, p.age_years, p.is_male,
                         p.activity_level_index, p.goal_type_index)

\* variant of the lookup: only the first user is compared
EmailTaken_FirstUserOnly(email) == users # <<>> /\ users[1].email = email

\* auth.py line 126: a user with this email exists
EmailTaken(email) == \E i \in 1..Len(users) : users[i].email = email

DEMO_TARGETS == <<2800, 180, 280, 93>>

\* db/seed.py: the demo user and its profile, unless the email exists
seed_demo_user ==
    IF EmailTaken(DemoEmail)
    THEN UNCHANGED <<users, profiles>>
    ELSE /\ users' = Append(users, [email |-> DemoEmail, name |-> "Demo User"])
         /\ profiles' = profiles @@
                (Len(users) + 1 :> Profile(ProfileDefaults, DEMO_TARGETS))

\* main.py: startup, and every restart on the same database
lifespan ==
    /\ IF SEED_DEMO_DATA THEN seed_demo_user ELSE UNCHANGED <<users, profiles>>
    /\ phase' = "serving"
    /\ http' = NoExchange
    /\ UNCHANGED <<SEED_DEMO_DATA, tables>>

\* main.py 37-42 with db/seed.py 219-245: the seed commits the demo user, then
\* the commit of its profile fails; lifespan logs the exception and startup
\* goes on with the user stored and no profile
lifespan_seed_interrupted ==
    /\ SEED_DEMO_DATA
    /\ ~EmailTaken(DemoEmail)
    /\ users' = Append(users, [email |-> DemoEmail, name |-> "Demo User"])
    /\ phase' = "serving"
    /\ http' = NoExchange
    /\ UNCHANGED <<SEED_DEMO_DATA, profiles, tables>>

\* request bodies the schemas accept (ProfileCreate: weight 50..1000, age
\* 1..150, height of at most 20 characters, activity 0..4, goal 0..3)
SignupProfiles ==
    {ProfileCreateDefaults,
     [ProfileCreateDefaults EXCEPT !.height_text = Str178cm, !.age_years = 30,
                                   !.goal_type_index = 2,
                                   !.selected_vitamins = << <<"I", "r", "o", "n">> >>,
                                   !.selected_dining_halls = <<>>],
     [ProfileCreateDefaults EXCEPT !.height_text = <<>>],
     [ProfileCreateDefaults EXCEPT !.height_text = StrNan]}

\* signup from the macro calculation on: the user and its profile with the
\* calculated targets, committed together; an exception leaves the handler
\* before the commit
CreateUser(email, data, macros) ==
    /\ StoreTables(TablesAfter(data))
    /\ IF macros.exc # "none"
       THEN /\ http' = Exchange("POST /auth/signup", 500, TRUE)
            /\ UNCHANGED <<users, profiles>>
       ELSE /\ users' = Append(users, [email |-> email, name |-> "Ann"])
            /\ profiles' = profiles @@ (Len(users) + 1 :> Profile(data, macros.val))
            /\ http' = Exchange("POST /auth/signup", 201, TRUE)

\* POST /auth/signup; profile_data is <<>> (no profile) or <<data>>
signup(email, profile_data) ==
    /\ phase = "serving"
    /\ UNCHANGED <<SEED_DEMO_DATA, phase>>
    /\ IF EmailTaken(email)
       THEN /\ http' = Exchange("POST /auth/signup", 400, FALSE)
            /\ UNCHANGED <<users, profiles, tables>>
       ELSE IF profile_data # <<>>
            THEN CreateUser(email, ProfileColumns(profile_data[1]),
                            MacrosOf(profile_data[1]))
            ELSE CreateUser(email, ProfileDefaults,
                            calculate_all_macros(165, Str5ft10, 21, TRUE, 2, 0))

\* variant of the fields that set recalculate_macros: the goal weight too
MacroFields_WithGoalWeight ==
    {"age_years", "height_text", "weight_lbs", "goal_weight_lbs", "is_male",
     "activity_level_index", "goal_type_index"}

MacroFields ==
    {"age_years", "height_text", "weight_lbs", "is_male", "activity_level_index",
     "goal_type_index"}

\* bodies of PUT /users/me the schema accepts (every field optional, age
\* 1..150, activity 0..4, goal 0..3): a body is the function from the fields
\* that are not None to their values
UpdateBodies ==
    {<<>>,
     ("name" :> "Bea") @@ ("goal_weight_lbs" :> 180)
         @@ ("selected_vitamins" :> << <<"B", "1", "2">>, <<"I", "r", "o", "n">> >>)
         @@ ("dietary_restrictions" :> <<>>)
         @@ ("disliked_foods" :> << <<"I", "r", "o", "n">> >>)
         @@ ("selected_dining_halls" :> << <<"D", "e", " ", "N", "e", "v", "e">> >>)
         @@ ("delivery_method_index" :> 1) @@ ("appearance_index" :> 2),
     "age_years" :> 30,
     "height_text" :> StrNan,
     ("goal_type_index" :> 2) @@ ("activity_level_index" :> 4)}

\* the body that supplies the six inputs with the values the profile holds
Resupply(profile) == [f \in MacroFields |-> profile[f]]

\* the bodies user u sends
BodiesFor(u) ==
    UpdateBodies \cup (IF u \in DOMAIN profiles THEN {Resupply(profiles[u])} ELSE {})

\* the profile with the supplied fields of the body written over it
Supplied(profile, update_data) ==
    [f \in DOMAIN profile |->
        IF f \in DOMAIN update_data THEN Stored(f, update_data[f]) ELSE profile[f]]

\* the users table with the name of the body, when it has one, written to u
Named(u, update_data) ==
    IF "name" \in DOMAIN update_data
    THEN [users EXCEPT ![u].name = update_data["name"]]
    ELSE users

WithTargets(p, t) ==
    [p EXCEPT !.calories_target = t[1], !.protein_target = t[2],
              !.carbs_target = t[3], !.fat_target = t[4]]

\* the recalculation of update_user_profile and the commit, or the exception
\* that leaves the handler before the commit
Recalculate(u, named, profile, macros) ==
    IF macros.exc # "none"
    THEN /\ http' = Exchange("PUT /users/me", 500, TRUE)
         /\ UNCHANGED <<users, profiles>>
    ELSE /\ users' = named
         /\ profiles' = [profiles EXCEPT ![u] = WithTargets(profile, macros.val)]
         /\ http' = Exchange("PUT /users/me", 200, TRUE)

\* update_user_profile from the field assignments on
UpdateProfile(u, named, profile, recalculate_macros) ==
    IF recalculate_macros
    THEN /\ StoreTables(TablesAfter(profile))
         /\ Recalculate(u, named, profile, MacrosOf(profile))
    ELSE /\ users' = named
         /\ profiles' = [profiles EXCEPT ![u] = profile]
         /\ http' = Exchange("PUT /users/me", 200, FALSE)
         /\ UNCHANGED tables

\* PUT /users/me of the authenticated user u
update_user_profile(u, update_data) ==
    /\ phase = "serving"
    /\ u \in 1..Len(users)
    /\ UNCHANGED <<SEED_DEMO_DATA, phase>>
    /\ IF u \notin DOMAIN profiles
       THEN /\ http' = Exchange("PUT /users/me", 500, FALSE)
            /\ UNCHANGED <<users, profiles, tables>>
       ELSE UpdateProfile(u, Named(u, update_data), Supplied(profiles[u], update_data),
                          DOMAIN update_data \cap MacroFields # {})

(***************************************************************************)
(* Preference lists in storage: a handler stores a submitted list with     *)
(* list_to_csv (auth.py 169-172, users.py 137-147) and the response gives  *)
(* the stored string back through csv_to_list (auth.py 57-60).             *)
(***************************************************************************)
\* str.split(sep) with a separator of one character, from the piece cur on
RECURSIVE SplitOnFrom(_, _, _)
SplitOnFrom(s, sep, cur) ==
    IF s = <<>> THEN <<cur>>
    ELSE IF Head(s) = sep THEN <<cur>> \o SplitOnFrom(Tail(s), sep, <<>>)
    ELSE SplitOnFrom(Tail(s), sep, cur \o <<Head(s)>>)

\* [x.strip() for x in pieces if x.strip()]
RECURSIVE StrippedNonEmpty(_)
StrippedNonEmpty(pieces) ==
    IF pieces = <<>> THEN <<>>
    ELSE IF StrStrip(Head(pieces)) = <<>> THEN StrippedNonEmpty(Tail(pieces))
    ELSE <<StrStrip(Head(pieces))>> \o StrippedNonEmpty(Tail(pieces))

\* api/auth.py: the stored comma-separated string as the list of the response
csv_to_list(csv_str) ==
    IF csv_str # <<>> THEN StrippedNonEmpty(SplitOnFrom(csv_str, ",", <<>>)) ELSE <<>>

MaxItemLen == 2

MaxItems == 2

ItemChars == {"a", ",", " "}

\* every list of at most n strings of items
RECURSIVE ListsUpTo(_, _)
ListsUpTo(items, n) ==
    IF n = 0 THEN {<<>>}
    ELSE ListsUpTo(items, n - 1)
             \cup {<<x>> \o l : x \in items, l \in {m \in ListsUpTo(items, n - 1) : Len(m) = n - 1}}

PreferenceLists == ListsUpTo(TextsUpTo(ItemChars, MaxItemLen), MaxItems)

\* a handler stores the submitted list
StorePreference ==
    /\ cpc = "submitted"
    /\ stored_csv' = list_to_csv(submitted)
    /\ cpc' = "stored"
    /\ UNCHANGED <<submitted, returned>>

\* the response of the handler, or of a later GET, gives the list back
ReturnPreference ==
    /\ cpc = "stored"
    /\ returned' = csv_to_list(stored_csv)
    /\ cpc' = "returned"
    /\ UNCHANGED <<submitted, stored_csv>>

(***************************************************************************)
(* Concurrent PUT /users/me requests of one user.  Every request has its   *)
(* own session (get_db); the session reads the profile row when the handler *)
(* first touches current_user.profile, the handler works on that copy, and *)
(* db.commit() writes the columns whose value differs from the copy read.  *)
(* Nothing locks the row and no column carries a version.                  *)
(***************************************************************************)
NumSessions == 2

\* bodies the concurrent requests send
SessionBodies ==
    {"weight_lbs" :> 200, "age_years" :> 30, "goal_weight_lbs" :> 180,
     ("goal_type_index" :> 2) @@ ("activity_level_index" :> 4)}

NewSession == [pc |-> "idle", update_data |-> <<>>, loaded |-> <<>>]

\* the user of the requests and its profile, as signup with the default
\* profile stored them
SignedUpUser ==
    /\ SEED_DEMO_DATA = FALSE
    /\ phase = "serving"
    /\ users = <<[email |-> "a@ucla.edu", name |-> "Ann"]>>
    /\ profiles = (1 :> Profile(ProfileDefaults, MacrosOf(ProfileDefaults).val))
    /\ http = Exchange("POST /auth/signup", 201, TRUE)

\* users.py line 97: session s reads the profile row of the user
LoadProfile(s, update_data) ==
    /\ sessions[s].pc = "idle"
    /\ sessions' = [sessions EXCEPT ![s] = [pc |-> "loaded", update_data |-> update_data,
                                            loaded |-> profiles[1]]]
    /\ UNCHANGED <<tables, app>>

\* the UPDATE of db.commit(): the columns of row that differ from the copy
\* the session read, written over the stored row
Flushed(stored, loaded, row) ==
    [f \in DOMAIN stored |-> IF row[f] # loaded[f] THEN row[f] ELSE stored[f]]

\* the copy of the session after the field assignments and the recalculation
Recalculated(profile, recalculate_macros) ==
    IF recalculate_macros THEN WithTargets(profile, MacrosOf(profile).val) ELSE profile

\* users.py lines 106-172 for session s: the assignments, the recalculation
\* from the copy of the session, and the commit
CommitProfile(s) ==
    LET update_data == sessions[s].update_data
        loaded == sessions[s].loaded
        recalculate_macros == DOMAIN update_data \cap MacroFields # {}
        profile == Supplied(loaded, update_data)
    IN  /\ sessions[s].pc = "loaded"
        /\ sessions' = [sessions EXCEPT ![s].pc = "done"]
        /\ UNCHANGED <<SEED_DEMO_DATA, phase>>
        /\ IF recalculate_macros /\ MacrosOf(profile).exc # "none"
           THEN /\ http' = Exchange("PUT /users/me", 500, TRUE)
                /\ StoreTables(TablesAfter(profile))
                /\ UNCHANGED <<users, profiles>>
           ELSE /\ users' = Named(1, update_data)
                /\ profiles' = [profiles EXCEPT ![1] =
                                   Flushed(profiles[1], loaded,
                                           Recalculated(profile, recalculate_macros))]
                /\ http' = Exchange("PUT /users/me", 200, recalculate_macros)
                /\ IF recalculate_macros THEN StoreTables(TablesAfter(profile))
                   ELSE UNCHANGED tables

(***************************************************************************)
(* Specifications                                                          *)
(***************************************************************************)
Init ==
    /\ InitTables /\ IdleEngine /\ log = <<>> /\ IdleHeight /\ IdleThreads /\ IdleMenus /\ IdleCsv /\ IdleSessions
    /\ SEED_DEMO_DATA \in BOOLEAN
    /\ phase = "boot"
    /\ users = <<>>
    /\ profiles = <<>>
    /\ http = NoExchange

Next ==
    \/ lifespan /\ UNCHANGED <<engine, log, height, threads, menus, csv, sessions>>
    \/ \E email \in Emails, profile_data \in {<<>>} \cup {<<d>> : d \in SignupProfiles} :
           signup(email, profile_data) /\ UNCHANGED <<engine, log, height, threads, menus, csv, sessions>>
    \/ \E u \in 1..Len(users) :
           \E update_data \in BodiesFor(u) :
               update_user_profile(u, update_data) /\ UNCHANGED <<engine, log, height, threads, menus, csv, sessions>>

Spec == Init /\ [][Next]_vars

InitEngine ==
    /\ InitTables /\ IdleApp /\ log = <<>> /\ IdleHeight /\ IdleThreads /\ IdleMenus /\ IdleCsv /\ IdleSessions
    /\ args \in EngineArgs
    /\ result = NoResult
    /\ epc = "ready"

NextEngine == EngineCall /\ UNCHANGED <<log, height, threads, menus, csv, sessions, app>>

SpecEngine == InitEngine /\ [][NextEngine]_vars

InitCalls ==
    InitTables /\ IdleApp /\ IdleEngine /\ IdleHeight /\ IdleThreads /\ IdleMenus /\ IdleCsv /\ IdleSessions /\ log = <<>>

NextCalls == \E a \in CallArgs : LoggedCall(a) /\ UNCHANGED <<engine, height, threads, menus, csv, sessions, app>>

SpecCalls == InitCalls /\ [][NextCalls]_vars

InitHeight ==
    /\ InitTables /\ IdleApp /\ IdleEngine /\ IdleThreads /\ IdleMenus /\ IdleCsv /\ IdleSessions /\ log = <<>>
    /\ h_text \in HeightTexts
    /\ h_cm = FZero
    /\ hpc = "ready"

NextHeight == HeightCall /\ UNCHANGED <<tables, engine, log, threads, menus, csv, sessions, app>>

SpecHeight == InitHeight /\ [][NextHeight]_vars

InitThreads ==
    /\ InitTables /\ IdleApp /\ IdleEngine /\ IdleHeight /\ IdleMenus /\ IdleCsv /\ IdleSessions /\ log = <<>>
    /\ threads \in [1..NumThreads -> {Called(a) : a \in ThreadArgs}]

NextThreads ==
    \/ \E t \in DOMAIN threads : Convert(t) /\ UNCHANGED <<engine, log, height, menus, csv, sessions, app>>
    \/ \E t \in DOMAIN threads : Gate(t) /\ UNCHANGED <<engine, log, height, menus, csv, sessions, app>>
    \/ \E t \in DOMAIN threads : Bmr(t) /\ UNCHANGED <<engine, log, height, menus, csv, sessions, app>>
    \/ \E t \in DOMAIN threads : Tdee(t) /\ UNCHANGED <<engine, log, height, menus, csv, sessions, app>>
    \/ \E t \in DOMAIN threads : Calories(t) /\ UNCHANGED <<engine, log, height, menus, csv, sessions, app>>
    \/ \E t \in DOMAIN threads : Protein(t) /\ UNCHANGED <<engine, log, height, menus, csv, sessions, app>>
    \/ \E t \in DOMAIN threads : Fat(t) /\ UNCHANGED <<engine, log, height, menus, csv, sessions, app>>

SpecThreads == InitThreads /\ [][NextThreads]_vars
InitMenus ==
    InitTables /\ IdleApp /\ IdleEngine /\ IdleHeight /\ IdleThreads /\ log = <<>> /\ IdleMenus /\ IdleCsv /\ IdleSessions

NextMenus ==
    \/ \E provider \in Providers :
           seed_dining_halls(provider) /\ UNCHANGED <<tables, engine, log, height, threads, csv, sessions, app>>
    \/ \E menu_date \in Dates, provider \in Providers :
           seed_menu_items(menu_date, provider)
               /\ UNCHANGED <<tables, engine, log, height, threads, csv, sessions, app>>
    \/ \E today \in Dates, provider \in Providers :
           get_dining_halls(today, provider)
               /\ UNCHANGED <<tables, engine, log, height, threads, csv, sessions, app>>
    \/ \E dining_hall \in 1..3, menu_date \in Dates, today \in Dates, provider \in Providers :
           get_menu(dining_hall, menu_date, today, provider)
               /\ UNCHANGED <<tables, engine, log, height, threads, csv, sessions, app>>

SpecMenus == InitMenus /\ [][NextMenus]_vars

InitCsv ==
    /\ InitTables /\ IdleApp /\ IdleEngine /\ IdleHeight /\ IdleThreads /\ IdleMenus
    /\ IdleSessions /\ log = <<>>
    /\ submitted \in PreferenceLists
    /\ stored_csv = <<>> /\ returned = <<>> /\ cpc = "submitted"

NextCsv ==
    \/ StorePreference /\ UNCHANGED <<tables, engine, log, height, threads, menus, sessions, app>>
    \/ ReturnPreference /\ UNCHANGED <<tables, engine, log, height, threads, menus, sessions, app>>

SpecCsv == InitCsv /\ [][NextCsv]_vars

\* the application with the failures between two commits of one operation
FaultBodies == {<<>>, "age_years" :> 30, "name" :> "Bea"}

NextFaults ==
    \/ lifespan /\ UNCHANGED <<engine, log, height, threads, menus, csv, sessions>>
    \/ lifespan_seed_interrupted
           /\ UNCHANGED <<engine, log, height, threads, menus, csv, sessions>>
    \/ \E email \in Emails, profile_data \in {<<>>, <<ProfileCreateDefaults>>} :
           signup(email, profile_data) /\ UNCHANGED <<engine, log, height, threads, menus, csv, sessions>>
    \/ \E u \in 1..Len(users) :
           \E update_data \in FaultBodies :
               update_user_profile(u, update_data) /\ UNCHANGED <<engine, log, height, threads, menus, csv, sessions>>

SpecFaults == Init /\ [][NextFaults]_vars

InitSessions ==
    /\ InitTables /\ IdleEngine /\ IdleHeight /\ IdleThreads /\ IdleMenus /\ IdleCsv
    /\ log = <<>>
    /\ SignedUpUser
    /\ sessions = [s \in 1..NumSessions |-> NewSession]

NextSessions ==
    \/ \E s \in 1..NumSessions, update_data \in SessionBodies :
           LoadProfile(s, update_data) /\ UNCHANGED <<engine, log, height, threads, menus, csv>>
    \/ \E s \in 1..NumSessions :
           CommitProfile(s) /\ UNCHANGED <<engine, log, height, threads, menus, csv>>

SpecSessions == InitSessions /\ [][NextSessions]_vars

(***************************************************************************)
(* Properties of the engine and of the stored targets                      *)
(***************************************************************************)
\* the gate of calculate_all_macros, on the arguments of a call
Gated(a) ==
    \/ a.weight_lbs <= 0
    \/ FLe(height_to_cm(a.height_text), FZero)
    \/ a.age_years <= 0

\* the TDEE of a call's arguments
TdeeOf(a) ==
    calculate_tdee(calculate_bmr(lbs_to_kg(a.weight_lbs), height_to_cm(a.height_text),
                                 a.age_years, a.is_male),
                   a.activity_level_index)

Returned == epc = "done" /\ result.exc = "none"

\* the six inputs of a stored profile
Inputs(p) ==
    <<p.weight_lbs, p.height_text, p.age_years, p.is_male, p.activity_level_index,
      p.goal_type_index>>

\* C1: calculate_all_macros never raises: on every argument tuple the call
\* ends by returning four integers.
C1_NeverRaises == epc = "done" => result.exc = "none"

\* C2: fallback gate: a call with weight_lbs <= 0, or a height that
\* height_to_cm takes to 0.0 or below, or age_years <= 0, returns exactly
\* (2000, 120, 200, 65), whatever is_male, the activity and the goal are.
C2_FallbackGate == epc = "done" /\ Gated(args) => result = Ret(<<2000, 120, 200, 65>>)

C2_Witness ==
    /\ epc = "done"
    /\ args.weight_lbs = 165 /\ args.age_years = 21 /\ args.height_text = <<"-", "5">>
    /\ args.activity_level_index = 99 /\ args.goal_type_index = 99 /\ ~args.is_male
    /\ result = Ret(<<2000, 120, 200, 65>>)

DefaultTargets == <<3000, 148, 392, 93>>

\* the newest user was created by the last request, with the default inputs
SignedUpWithDefaults ==
    /\ http.endpoint = "POST /auth/signup" /\ http.status = 201
    /\ Inputs(profiles[Len(users)]) = Inputs(ProfileDefaults)

ExceedsBudget ==
    FGt(FAdd(FMul(FromInt(result.val[2]), CALORIES_PER_GRAM_PROTEIN),
             FMul(FromInt(result.val[1]), FatPercent(args.goal_type_index))),
        FromInt(result.val[1]))

\* C4: non-negative carbs: whenever calculate_all_macros returns (the
\* fallback included) carbs are >= 0, and they are exactly 0 when protein
\* and fat calories exceed the calorie target.
C4_NonNegativeCarbs ==
    Returned => /\ result.val[3] >= 0
                /\ ~Gated(args) /\ ExceedsBudget => result.val[3] = 0

C4_Witness ==
    /\ Returned /\ ~Gated(args) /\ ExceedsBudget
    /\ result.val[1] > 0 /\ result.val[3] = 0

\* C5: determinism: calls with the same six arguments return the same
\* result whatever calls came before or between them, and no call changes
\* the three tables.
C5_Determinism ==
    /\ \A i, j \in 1..Len(log) :
           log[i].args = log[j].args => log[i].result = log[j].result
    /\ ACTIVITY_MULTIPLIERS = InitActivityMultipliers
    /\ PROTEIN_PER_LB = InitProteinPerLb
    /\ FAT_PERCENT = InitFatPercent

C5_Witness ==
    /\ Len(log) = 3
    /\ log[1].args = DefaultArgs /\ log[3].args = DefaultArgs
    /\ log[2].args.goal_type_index = 99
    /\ log[1].result = log[3].result /\ log[1].result # log[2].result

\* C6: activity fallback: with an activity index outside 0..4 (negative, or
\* 5 and above) calculate_tdee and calculate_all_macros give what they give
\* with index 0, all other arguments equal.
C6_ActivityFallback ==
    epc = "done" /\ args.activity_level_index \notin 0..4 =>
        /\ result = Apply([args EXCEPT !.activity_level_index = 0])
        /\ TdeeOf(args) = TdeeOf([args EXCEPT !.activity_level_index = 0])

C6_Witness ==
    /\ Returned /\ ~Gated(args) /\ args.activity_level_index = -1
    /\ result = Apply([args EXCEPT !.activity_level_index = 0])
    /\ result # Apply([args EXCEPT !.activity_level_index = 4])

\* C7: goal fallback: with a goal index outside 0..3 the three lookups fall
\* back to 0.8 g/lb, 28 % fat and adjustment 1.0, so that calories are
\* round(tdee * 1.0), protein round(weight_lbs * 0.8) and fat
\* round(calories * 0.28 / 9); no goal index in 0..3 has this combination.
C7_GoalFallback ==
    epc = "done" /\ args.goal_type_index \notin 0..3 =>
        /\ ProteinPerLb(args.goal_type_index) = Lit(8, 1)
        /\ FatPercent(args.goal_type_index) = Lit(28, 2)
        /\ Adjustment(args.goal_type_index) = Lit(10, 1)
        /\ \A g \in 0..3 : <<ProteinPerLb(g), FatPercent(g), Adjustment(g)>>
                               # <<Lit(8, 1), Lit(28, 2), Lit(10, 1)>>
        /\ result.exc = "none" /\ ~Gated(args) =>
               /\ Ret(result.val[1]) = PyRound(FMul(TdeeOf(args), Lit(10, 1)))
               /\ Ret(result.val[2]) = PyRound(FMul(FromInt(args.weight_lbs), Lit(8, 1)))
               /\ Ret(result.val[4]) =
                      PyRound(FDiv(FMul(FromInt(result.val[1]), Lit(28, 2)), Lit(90, 1)))

C7_Witness ==
    /\ Returned /\ ~Gated(args)
    /\ args.goal_type_index = 99 /\ args.weight_lbs = 165
    /\ result.val[2] = 132

\* x is within 0.01 of centi / 100
Near(x, centi) == FLe(Lit(centi - 1, 2), x) /\ FLe(x, Lit(centi + 1, 2))

\* a text of digits only, at least one
BareNumber(t) == t # <<>> /\ \A i \in 1..Len(t) : t[i] \in Digits

\* C8: height parser reference cases: "5'10\"" gives 5*30.48 + 10*2.54 =
\* 177.8 within 0.01, "178 cm" gives 178.0, "" gives 0.0, "6" gives
\* 6*30.48 = 182.88, and every bare number not above 100 is taken as feet.
C8_HeightReferenceCases ==
    hpc = "done" =>
        /\ h_text = Str5ft10 =>
               /\ h_cm = FAdd(FMul(FromInt(5), Lit(3048, 2)), FMul(FromInt(10), Lit(254, 2)))
               /\ Near(h_cm, 17780)
        /\ h_text = Str178cm => h_cm = FromInt(178)
        /\ h_text = <<>> => h_cm = FZero
        /\ h_text = <<"6">> => h_cm = FMul(FromInt(6), Lit(3048, 2)) /\ Near(h_cm, 18288)
        /\ BareNumber(h_text) /\ FLe(PyFloat(h_text).val, FromInt(100)) =>
               h_cm = FMul(PyFloat(h_text).val, Lit(3048, 2))

C8_Witness ==
    /\ hpc = "done" /\ h_text = <<"1", "0", "0">>
    /\ h_cm = FromInt(3048)

\* C9: a PUT /users/me that recomputes the targets and leaves the six inputs
\* of every profile as they were leaves the four stored targets as they were.
C9_NoOpUpdateKeepsTargets ==
    [][(/\ http'.endpoint = "PUT /users/me" /\ http'.status = 200 /\ http'.engine_called
        /\ \A u \in DOMAIN profiles : Inputs(profiles'[u]) = Inputs(profiles[u]))
       => \A u \in DOMAIN profiles : Targets(profiles'[u]) = Targets(profiles[u])]_vars

\* C10: single entry point: in every reachable state the four targets of
\* each stored profile are what calculate_all_macros returns on the six
\* inputs stored on that profile.
C10_TargetsFromEngine ==
    \A u \in DOMAIN profiles : MacrosOf(profiles[u]) = Ret(Targets(profiles[u]))

\* the fields of a PUT /users/me body that are not inputs of the engine
NonMacroFields ==
    {"name", "goal_weight_lbs", "selected_vitamins", "dietary_restrictions",
     "disliked_foods", "selected_dining_halls", "delivery_method_index",
     "appearance_index"}

\* the targets and the six inputs of every profile are as before the step
TargetsAndInputsKept ==
    \A v \in DOMAIN profiles :
        /\ Targets(profiles'[v]) = Targets(profiles[v])
        /\ Inputs(profiles'[v]) = Inputs(profiles[v])

\* C11: a PUT /users/me whose body supplies only name, goal weight,
\* preference lists or settings does not call calculate_all_macros and
\* leaves the four targets and the six inputs of the profile unchanged; the
\* engine is called only when one of the six inputs is supplied.
C11_NonMacroUpdateFrame ==
    [][\A u \in 1..Len(users) : \A b \in BodiesFor(u) :
           DOMAIN b \subseteq NonMacroFields /\ update_user_profile(u, b)
               => ~http'.engine_called /\ TargetsAndInputsKept]_vars

C11_Witness ==
    /\ http = Exchange("PUT /users/me", 200, FALSE)
    /\ \E u \in DOMAIN profiles :
           /\ users[u].name = "Bea" /\ profiles[u].goal_weight_lbs = 180
           /\ profiles[u].selected_vitamins = <<"B", "1", "2", ",", "I", "r", "o", "n">>
           /\ profiles[u].delivery_method_index = 1
           /\ Inputs(profiles[u]) = Inputs(ProfileDefaults)
           /\ Targets(profiles[u]) = <<3000, 148, 392, 93>>

\* the fields of a PUT /users/me body that are inputs of the engine
InputFields ==
    {"age_years", "height_text", "weight_lbs", "is_male", "activity_level_index",
     "goal_type_index"}

\* C12: after a PUT /users/me that supplies at least one of the six inputs,
\* the stored profile has the supplied values written over the stored ones,
\* and its four targets are what calculate_all_macros returns on its six
\* inputs.
C12_RecalculationOnUpdate ==
    [][\A u \in 1..Len(users) : \A b \in BodiesFor(u) :
           DOMAIN b \cap InputFields # {} /\ update_user_profile(u, b)
               => /\ Inputs(profiles'[u]) = Inputs(Supplied(profiles[u], b))
                  /\ MacrosOf(profiles'[u]) = Ret(Targets(profiles'[u]))]_vars

\* C13: concurrent calls: however the statements of concurrent calls of
\* calculate_all_macros interleave, each call ends with what the call gives
\* when it runs alone, and the three module-level tables are never written.
C13_ConcurrentCalls ==
    /\ ACTIVITY_MULTIPLIERS = InitActivityMultipliers
    /\ PROTEIN_PER_LB = InitProteinPerLb
    /\ FAT_PERCENT = InitFatPercent
    /\ \A t \in DOMAIN threads :
           threads[t].pc = "done" => threads[t].result = Apply(threads[t].args)

C13_Witness ==
    /\ DOMAIN threads = 1..NumThreads
    /\ \A t \in DOMAIN threads : threads[t].pc = "done"
    /\ threads[1].args = DefaultArgs /\ threads[1].result = Ret(<<3000, 148, 392, 93>>)
    /\ \E t \in DOMAIN threads :
           threads[t].args.goal_type_index = 99 /\ threads[t].result.val[2] = 132

\* calls that differ from a in height, age, sex and activity level only
OtherBodies(a) ==
    {[a EXCEPT !.height_text = h, !.age_years = o[1], !.is_male = o[2],
               !.activity_level_index = o[3]] :
         h \in {Str178cm, <<"0", "'", "1", "\"">>}, o \in {<<21, TRUE, 0>>, <<150, FALSE, 4>>}}

\* a call that returned r returned p grams of protein
SameProtein(r, p) == r.exc = "none" => r.val[2] = p

\* C14: protein is weight-anchored: a call that passes the gate and returns
\* gives protein = round(weight_lbs * protein_per_lb[goal]) with the table
\* {0: 0.9, 1: 0.8, 2: 1.0, 3: 0.7}, and the same protein as every call with
\* the same weight and goal and another height, age, sex or activity level,
\* carbs clamped to 0 or not.
C14_ProteinWeightAnchored ==
    Returned /\ ~Gated(args) =>
        /\ args.goal_type_index \in 0..3 =>
               Ret(result.val[2]) =
                   PyRound(FMul(FromInt(args.weight_lbs),
                                ((0 :> Lit(9, 1)) @@ (1 :> Lit(8, 1)) @@ (2 :> Lit(10, 1))
                                     @@ (3 :> Lit(7, 1)))[args.goal_type_index]))
        /\ \A b \in OtherBodies(args) :
               ~Gated(b) => SameProtein(Apply(b), result.val[2])

C14_Witness ==
    /\ Returned /\ ~Gated(args)
    /\ args.weight_lbs = 165 /\ args.goal_type_index = 0
    /\ args.height_text = <<"0", "'", "1", "\"">> /\ args.age_years = 21
    /\ result.val[2] = 148 /\ result.val[3] = 0
    /\ Apply(DefaultArgs) = Ret(<<3000, 148, 392, 93>>)

\* C15: height parser output range: on every text height_to_cm returns a
\* number of centimetres that is >= 0 (0.0 included); it never returns a
\* negative value, also not for texts with a leading minus sign.
C15_HeightNonNegative == hpc = "done" => FLe(FZero, h_cm)

\* the text without " cm" and "cm", as the centimetre step reads it
CleanedCm(t) == StrReplace(StrReplace(t, <<" ", "c", "m">>, <<>>), <<"c", "m">>, <<>>)

\* the centimetre step returns: the cleaned text is a number above 100
TakenAsCm(t) == PyFloat(CleanedCm(t)).exc = "none" /\ FGt(PyFloat(CleanedCm(t)).val, FromInt(100))

\* the tokens of the feet / inches steps
Tokens(t) == StrSplit(StrReplace(StrReplace(t, <<"\"">>, <<>>), <<"'">>, <<" ">>))

\* there is no token, or the feet token or the inches token is no number
TokenFails(parts) ==
    \/ parts = <<>>
    \/ PyFloat(parts[1]).exc # "none"
    \/ Len(parts) >= 2 /\ PyFloat(parts[2]).exc # "none"

\* C16: height parser never raises: on every text height_to_cm returns a
\* float, and when the feet / inches steps are reached and there is no
\* token, or the feet token or the inches token does not parse as a number,
\* it returns exactly 0.0, on which calculate_all_macros returns the
\* fallback tuple and does not raise.
C16_HeightNeverRaises ==
    hpc = "done" =>
        /\ h_cm.k \in {"fin", "inf", "nan"}
        /\ ~TakenAsCm(h_text) /\ TokenFails(Tokens(h_text)) =>
               /\ h_cm = FZero
               /\ calculate_all_macros(165, h_text, 21, TRUE, 2, 0) = Ret(FALLBACK_MACROS)
               /\ calculate_all_macros(45, h_text, 150, FALSE, 99, 99) = Ret(FALLBACK_MACROS)

C16_Witness ==
    /\ hpc = "done" /\ h_text = <<"5", " ", "c">>
    /\ Tokens(h_text) = << <<"5">>, <<"c">> >>
    /\ h_cm = FZero
    /\ calculate_all_macros(165, h_text, 21, TRUE, 2, 0) = Ret(<<2000, 120, 200, 65>>)

\* 10*(weight_lbs*0.453592) + 6.25*height_cm - 5*age_years + (5 if is_male else -161)
MifflinStJeor(a) ==
    FAdd(FSub(FAdd(FMul(FromInt(10), FMul(FromInt(a.weight_lbs), Lit(453592, 6))),
                   FMul(Lit(625, 2), height_to_cm(a.height_text))),
              FromInt(5 * a.age_years)),
         FromInt(IF a.is_male THEN 5 ELSE -161))

\* round(bmr * multiplier * adjustment), rounded once
CaloriesOf(bmr, multiplier, adjustment) == PyRound(FMul(FMul(bmr, multiplier), adjustment))

\* the same with the BMR and the TDEE rounded on the way
CaloriesRoundedOnTheWay(bmr, multiplier, adjustment) ==
    PyRound(FMul(FromInt(PyRound(FMul(FromInt(PyRound(bmr).val), multiplier)).val), adjustment))

\* C17: target calories: a call that passes the gate and returns, with the
\* activity in 0..4 and the goal in 0..3, gives calories =
\* round(bmr * [1.20, 1.375, 1.55, 1.725, 1.90][activity] *
\* {0: 1.10, 1: 1.20, 2: 0.80, 3: 1.00}[goal]) with the Mifflin-St Jeor BMR
\* on weight_lbs * 0.453592 kg, and nothing is rounded before the end.
C17_TargetCalories ==
    Returned /\ ~Gated(args) /\ args.activity_level_index \in 0..4
             /\ args.goal_type_index \in 0..3 =>
        Ret(result.val[1]) =
            CaloriesOf(MifflinStJeor(args),
                       <<Lit(120, 2), Lit(1375, 3), Lit(155, 2), Lit(1725, 3), Lit(190, 2)>>
                           [args.activity_level_index + 1],
                       ((0 :> Lit(110, 2)) @@ (1 :> Lit(120, 2)) @@ (2 :> Lit(80, 2))
                            @@ (3 :> Lit(100, 2)))[args.goal_type_index])

C17_Witness ==
    /\ Returned /\ args = DefaultArgs
    /\ result.val[1] = 3000
    /\ CaloriesOf(MifflinStJeor(args), Lit(155, 2), Lit(110, 2)) = Ret(3000)
    /\ CaloriesRoundedOnTheWay(MifflinStJeor(args), Lit(155, 2), Lit(110, 2)) = Ret(3001)

\* C18: fat allocation: a call that passes the gate and returns, with the
\* goal in 0..3, gives fat = round(calories * fat_percent[goal] / 9) on the
\* returned (rounded) calories with the table {0: 0.28, 1: 0.28, 2: 0.25,
\* 3: 0.28}, and calculate_macros gives the same fat on these calories and
\* this goal with any other weight.
C18_FatAllocation ==
    Returned /\ ~Gated(args) /\ args.goal_type_index \in 0..3 =>
        /\ Ret(result.val[4]) =
               PyRound(FDiv(FMul(FromInt(result.val[1]),
                                 ((0 :> Lit(28, 2)) @@ (1 :> Lit(28, 2)) @@ (2 :> Lit(25, 2))
                                      @@ (3 :> Lit(28, 2)))[args.goal_type_index]),
                            FromInt(9)))
        /\ \A w \in {45, 165} :
               calculate_macros(result.val[1], args.goal_type_index, w).val[3] = result.val[4]

C18_Witness ==
    /\ Returned /\ args = [DefaultArgs EXCEPT !.goal_type_index = 2]
    /\ result.val[1] = 2182 /\ result.val[4] = 61
    /\ calculate_macros(2182, 2, 45).val[3] = 61

\* C19: carbohydrate remainder: a call that passes the gate and returns
\* gives carbs = max(0, round((calories - protein*4 - fat*9) / 4)) on the
\* rounded protein and fat grams of the same returned tuple.
C19_CarbsRemainder ==
    Returned /\ ~Gated(args) =>
        result.val[3] =
            PyMax(0, PyRound(FDiv(FSub(FSub(FromInt(result.val[1]),
                                            FMul(FromInt(result.val[2]), FromInt(4))),
                                       FMul(FromInt(result.val[4]), FromInt(9))),
                                  FromInt(4))).val)

\* C20: centimetre disambiguation: when the text without " cm" and "cm"
\* parses as a number above 100, height_to_cm returns that number; when it
\* parses as a number not above 100, or does not parse, the result is that of
\* the feet / inches steps on the original text, so that "100" gives
\* 100 * 30.48 and "50" gives 50 * 30.48.
C20_CentimetreDisambiguation ==
    hpc = "done" =>
        /\ TakenAsCm(h_text) => h_cm = PyFloat(CleanedCm(h_text)).val
        /\ ~TakenAsCm(h_text) => h_cm = HeightOfParts(Tokens(h_text))
        /\ h_text = <<"1", "0", "0">> => h_cm = FromInt(3048)
        /\ h_text = <<"5", "0">> => h_cm = FromInt(1524)
        /\ h_text = <<"1", "0", "0", ".", "5">> => h_cm = Lit(1005, 1)

C20_Witness ==
    /\ hpc = "done" /\ h_text = <<"5", "c", "m">>
    /\ PyFloat(CleanedCm(h_text)) = Ret(FromInt(5))
    /\ Tokens(h_text) = << <<"5", "c", "m">> >>
    /\ h_cm = FZero

\* the float a token stands for
Num(token) == PyFloat(token).val

\* the token parses as a number
IsNum(token) == PyFloat(token).exc = "none"

\* C21: feet / inches path: when the centimetre step does not return, a text
\* with two or more tokens gives feet*30.48 + inches*2.54 from its first two
\* tokens, or 0.0 if one of the two is no number; a text with one token gives
\* token*30.48, or 0.0 if it is no number; a text without a token gives 0.0.
C21_FeetInchesPath ==
    hpc = "done" /\ ~TakenAsCm(h_text) =>
        /\ Len(Tokens(h_text)) >= 2 =>
               h_cm = IF IsNum(Tokens(h_text)[1]) /\ IsNum(Tokens(h_text)[2])
                      THEN FAdd(FMul(Num(Tokens(h_text)[1]), Lit(3048, 2)),
                                FMul(Num(Tokens(h_text)[2]), Lit(254, 2)))
                      ELSE FZero
        /\ Len(Tokens(h_text)) = 1 =>
               h_cm = IF IsNum(Tokens(h_text)[1])
                      THEN FMul(Num(Tokens(h_text)[1]), Lit(3048, 2))
                      ELSE FZero
        /\ Len(Tokens(h_text)) = 0 => h_cm = FZero

C21_Witness ==
    /\ hpc = "done" /\ h_text = <<"5", " ", "1", " ", "m">>
    /\ Tokens(h_text) = << <<"5">>, <<"1">>, <<"m">> >>
    /\ h_cm = FAdd(FMul(FromInt(5), Lit(3048, 2)), Lit(254, 2))

\* the stored items of a date, in the order of the table
RowsOf(items, menu_date) == SelectSeq(items, LAMBDA item : item.menu_date = menu_date)

\* the provider items whose hall code is the code of a stored hall
KnownItems(halls, provider) ==
    SelectSeq(provider.items,
              LAMBDA item_data : \E i \in 1..Len(halls) : halls[i].code = item_data.dining_hall_id)

\* rows are one row per item of known, in this order, for the date
OneRowPerItem(rows, known, halls, menu_date) ==
    /\ Len(rows) = Len(known)
    /\ \A k \in 1..Len(known) :
           /\ rows[k].name = known[k].name /\ rows[k].meal_period = known[k].meal_period
           /\ rows[k].menu_date = menu_date
           /\ \E i \in 1..Len(halls) :
                  halls[i].code = known[k].dining_hall_id /\ halls[i].id = rows[k].dining_hall_id

\* C22: menu seeding replaces, never duplicates: after seed_menu_items for a
\* date the stored items of the date are one row per provider item whose hall
\* code is stored, the returned count is their number, a second call for the
\* date leaves as many, and the items of every other date are as before; and
\* whatever a handler does, the items of a date are left as they were or are
\* one row per provider item of a known hall.
C22_MenuSeedingReplaces ==
    [][/\ \A menu_date \in Dates, provider \in Providers :
              seed_menu_items(menu_date, provider) =>
                  /\ OneRowPerItem(RowsOf(menu_items', menu_date),
                                   KnownItems(dining_halls, provider), dining_halls, menu_date)
                  /\ menu_http'.count = Len(KnownItems(dining_halls, provider))
                  /\ ItemCount(SeedMenuItems(dining_halls', menu_items', menu_date,
                                             provider).items, menu_date)
                         = ItemCount(menu_items', menu_date)
                  /\ \A other \in Dates \ {menu_date} :
                         RowsOf(menu_items', other) = RowsOf(menu_items, other)
       /\ \A menu_date \in Dates :
              \/ RowsOf(menu_items', menu_date) = RowsOf(menu_items, menu_date)
              \/ \E provider \in Providers :
                     OneRowPerItem(RowsOf(menu_items', menu_date),
                                   KnownItems(dining_halls', provider), dining_halls',
                                   menu_date)]_vars

C22_Witness ==
    /\ menu_http = [endpoint |-> "seed_menu_items", status |-> 1, count |-> 2]
    /\ ItemCount(menu_items, 1) = 2 /\ ItemCount(menu_items, 2) > 0
    /\ HallWithCode(dining_halls, "bplate") # 0
    /\ HallWithCode(dining_halls, "epicuria") = 0
    /\ \A k \in 1..Len(menu_items) :
           menu_items[k].menu_date = 1 =>
               menu_items[k].dining_hall_id = dining_halls[HallWithCode(dining_halls, "bplate")].id

\* the stored hall has the values of the provider hall
HasValuesOf(hall, hall_data) ==
    /\ hall.code = hall_data.id /\ hall.name = hall_data.name
    /\ hall.short_name = hall_data.short_name /\ hall.location = hall_data.location
    /\ hall.description = hall_data.description /\ hall.image_url = hall_data.image_url

\* the provider halls whose code is not the code of a stored hall
NewCodes(halls, provider) ==
    {k \in 1..Len(provider.halls) :
         \A i \in 1..Len(halls) : halls[i].code # provider.halls[k].id}

\* C23: dining-hall seeding is an upsert keyed by code: after every step
\* there is at most one stored hall per code and every hall stored before
\* has its id and code; after seed_dining_halls every provider hall is
\* stored with the provider's name, short name, location, description and
\* image, and the returned count is the number of halls created, 0 when
\* every provider hall was stored before.
C23_HallUpsert ==
    [][/\ \A i, j \in 1..Len(dining_halls') :
              dining_halls'[i].code = dining_halls'[j].code => i = j
       /\ \A i \in 1..Len(dining_halls) :
              /\ i <= Len(dining_halls')
              /\ dining_halls'[i].id = dining_halls[i].id
              /\ dining_halls'[i].code = dining_halls[i].code
       /\ \A provider \in Providers :
              seed_dining_halls(provider) =>
                  /\ \A k \in 1..Len(provider.halls) :
                         \E i \in 1..Len(dining_halls') :
                             HasValuesOf(dining_halls'[i], provider.halls[k])
                  /\ menu_http'.count = Cardinality(NewCodes(dining_halls, provider))
                  /\ Len(dining_halls') = Len(dining_halls) + menu_http'.count]_vars

C23_Witness ==
    /\ menu_http = [endpoint |-> "seed_dining_halls", status |-> 0, count |-> 1]
    /\ Len(dining_halls) = 3
    /\ dining_halls[1].id = 1 /\ dining_halls[1].code = "bplate"
    /\ dining_halls[1].name = "B Plate"
    /\ dining_halls[3].code = "de_neve"

\* C24: signup with a registered email answers 400 and stores nothing: the
\* users and the profiles, targets included, are as before; and after every
\* step no two users share an email.
C24_DuplicateSignupRejected ==
    [][/\ \A email \in Emails, profile_data \in {<<>>} \cup {<<d>> : d \in SignupProfiles} :
              EmailTaken(email) /\ signup(email, profile_data) =>
                  /\ http' = Exchange("POST /auth/signup", 400, FALSE)
                  /\ users' = users /\ profiles' = profiles
       /\ \A i, j \in 1..Len(users') : users'[i].email = users'[j].email => i = j]_vars

C24_Witness ==
    /\ http = Exchange("POST /auth/signup", 400, FALSE)
    /\ Len(users) = 2 /\ DOMAIN profiles = {1, 2}
    /\ users[1].email = DemoEmail /\ users[2].email # DemoEmail
    /\ Targets(profiles[1]) = DEMO_TARGETS

\* C25: all outputs are non-negative: a call that passes the gate and
\* returns gives calories >= 0, protein >= 0 and fat >= 0.
C25_NonNegativeOutputs ==
    Returned /\ ~Gated(args) =>
        result.val[1] >= 0 /\ result.val[2] >= 0 /\ result.val[4] >= 0

\* the calories of the returned grams minus the returned calories
BudgetGap == 4 * result.val[2] + 4 * result.val[3] + 9 * result.val[4] - result.val[1]

\* calories - 4*protein - calories*fat_percent[goal] >= 0: carbs are not clamped
NotClamped ==
    FLe(FZero, FSub(FSub(FromInt(result.val[1]), FromInt(4 * result.val[2])),
                    FMul(FromInt(result.val[1]), FatPercent(args.goal_type_index))))

\* C26: calorie budget closure: a call that passes the gate and returns with
\* unclamped carbs gives grams whose calories, 4*protein + 4*carbs + 9*fat,
\* are within 6 kcal of the returned calories.
C26_BudgetClosure ==
    Returned /\ ~Gated(args) /\ NotClamped => BudgetGap \in -6..6

C26_Witness ==
    /\ Returned /\ args = DefaultArgs /\ NotClamped
    /\ result.val = <<3000, 148, 392, 93>>
    /\ BudgetGap = -3

\* the calories of the call with the next activity level
CaloriesOneLevelUp == Apply([args EXCEPT !.activity_level_index = @ + 1]).val[1]

\* C27: calories are monotone in activity: for a call that passes the gate
\* and returns with the activity index i in 0..3, the call with index i + 1
\* and the other arguments equal returns at least as many calories.
C27_MonotoneInActivity ==
    Returned /\ ~Gated(args) /\ args.activity_level_index \in 0..3 =>
        CaloriesOneLevelUp >= result.val[1]

\* C28: preference lists round-trip through storage: the list a response
\* gives back is the list that was submitted, csv_to_list(list_to_csv(xs)) =
\* xs, also when an element holds a comma, is empty or has spaces at its ends.
C28_PreferenceRoundTrip == cpc = "returned" => returned = submitted

\* C29: every user has a profile: after startup seeding and any sequence of
\* signup and update requests, runs where a step fails between two commits
\* included, every stored user has exactly one profile, and PUT /users/me
\* never answers 500 "User profile not found".
C29_EveryUserHasProfile ==
    /\ \A u \in 1..Len(users) : u \in DOMAIN profiles
    /\ ~(http.endpoint = "PUT /users/me" /\ http.status = 500 /\ ~http.engine_called)

\* C30: concurrent profile updates stay consistent: when two PUT /users/me
\* requests of one user run in separate sessions, then after both have
\* committed, in every interleaving, the four stored targets are
\* calculate_all_macros of the six stored inputs.
C30_ConcurrentUpdatesConsistent ==
    (\A s \in DOMAIN sessions : sessions[s].pc = "done")
        => \A u \in DOMAIN profiles : Targets(profiles[u]) = MacrosOf(profiles[u]).val
====
